---- MODULE Spec2Model ----
(***************************************************************************)
(* Document structure assembly of dnd-rulebook: the rectangle-overlap      *)
(* predicate (utils/geometry.py), the per-page block assembler              *)
(* (blocks/assemble.py), the column-heuristic reading order                 *)
(* (layout/order.py) and the TOC tree builder (ocr/toc.py).                 *)
(*                                                                          *)
(* Conventions.  Python's None is the empty tuple <<>> and a present        *)
(* optional value v is <<v>>.  A float threshold is the rational            *)
(* <<num, den>> with den > 0; x / y >= num / den is decided on integers.    *)
(* Python lists are sequences; a Python index i is position i + 1.          *)
(***************************************************************************)
EXTENDS Integers, Sequences, FiniteSets, TLC

VARIABLES
    \* ---- utils/geometry.py: one evaluation of intersects
    g_a, g_b, g_min, g_res, g_pc,
    \* ---- blocks/assemble.py: BlockAssembler and one assemble_page frame
    prose_font_size,    \* self.prose_font_size
    page_index, ocr_regions, reading_order, layout_regions,   \* arguments
    pc,                 \* "start" | "loop" | "done" | "error"
    idx,                \* loop index of line 86
    blocks, order_id, emitted_tables, title_state, current_text,
    files,              \* crop files written under crop_dir
    calls,              \* assemble_page calls completed on this assembler
    prev_blocks,        \* what the previous call returned
    prov,               \* history: per block, what it was made from
    cur_src,            \* history: positions accumulated in current_text
    \* ---- layout/order.py: one heuristic_reading_order frame
    h_regions, h_cols,  \* arguments ocr_regions (their bboxes), num_columns
    h_pc,               \* "start" | "assign" | "emit" | "done" | an error
    h_i,                \* position in the loop of line 125
    h_col,              \* col of the loop of line 131
    h_buckets,          \* buckets, a function on the cols seen
    h_out,              \* ordered_indices
    \* ---- ocr/toc.py: one build_toc_tree frame
    t_entries,          \* argument entries
    t_pc,               \* "loop" | "done" | "ranged" | "script_ranged" |
                        \* "script_TypeError"
    t_i,                \* entries consumed
    t_nodes,            \* the node objects created, by creation order
    t_stack, t_roots,   \* references to nodes (their creation numbers)
    t_last,             \* last_page of compute_page_ranges, None before it
    \* ---- blocks/serialize.py: one align_blocks_to_toc frame
    al_blocks, al_toc,  \* arguments blocks (dicts) and toc (a forest)
    al_pc,              \* "loop" | "done" | "NameError"
    al_i,               \* blocks consumed by the loop of line 61
    al_current_path,    \* current_path, a dict from level to title
    al_block_to_path,   \* block_to_path, a dict from block_id to path
    \* ---- blocks/serialize.py: one serialize_blocks frame
    sb_blocks, sb_toc,  \* arguments blocks (Block objects) and toc
    sb_pc,              \* "start" | "loop" | "AttributeError" | "NameError"
    sb_i,               \* blocks consumed by the loop of line 129
    sb_text_blocks, sb_table_blocks,
    sb_made,            \* whether out_path has been created (line 120)
    \* ---- blocks/sections.py: one split_into_sections frame
    sec_blocks,         \* argument text_blocks (dicts)
    sec_pc,             \* "loop" | "done"
    sec_i,              \* blocks consumed by the loop of line 18
    sec_sections, sec_current, sec_index,   \* sections, current, section_index
    sec_file,           \* what text.json holds, None while unwritten
    \* ---- layout/order.py: one parse_logits frame
    pl_logits, pl_length,   \* arguments logits (rows of scores) and length
    pl_pc,              \* "start" | "loop" | "done" | "IndexError"
    pl_orders,          \* orders: per region, its candidates left, best last
    pl_ret,             \* ret: per region, its current order value
    pl_prev,            \* history: ret and orders before the last pass
    pl_passes,          \* history: passes of the while loop that reassigned
    \* ---- vision/vlm.py: one extract_table frame and the provider it calls
    v_block,            \* argument block
    v_pc,               \* "start" | "attempt" | "returned" | the exception raised
    v_attempt,          \* attempt, 1-based as enumerate(..., start=1) counts
    v_calls,            \* max_tokens of the requests made so far, in order
    v_last_content,     \* last_content
    v_last_error,       \* last_error
    v_slept,            \* seconds passed in time.sleep
    v_result,           \* the dict returned, None before
    v_log,              \* history: what each request came to, in order
    \* ---- blocks/assemble.py: assemble_page calls running at the same time
    cc_prose,           \* self.prose_font_size of the one assembler
    cc_frames,          \* per worker, the arguments and locals of its call
    cc_files,           \* crop files written under crop_dir, with their writer
    \* ---- utils/normalize.py: normalize_title on the two spellings of a title
    nt_number,          \* the chapter number N, a string of digits
    nt_words,           \* the words of the title text T
    nt_pc,              \* "start" | "done"
    nt_long,            \* normalize_title("Chapter N: T"), None before
    nt_short,           \* normalize_title("Ch. N T"), None before
    \* ---- ocr/toc.py and scripts/extract_toc.py: TOC line parsing
    pt_lines,           \* the lines of the TOC page, in reading order
    pt_pc,              \* "start" | "parsed" | "script_parsed"
    pt_entries          \* entries, as returned

geomVars == <<g_a, g_b, g_min, g_res, g_pc>>
asmVars == <<prose_font_size, page_index, ocr_regions, reading_order,
             layout_regions, pc, idx, blocks, order_id, emitted_tables,
             title_state, current_text, files, calls, prev_blocks, prov,
             cur_src>>

ordVars == <<h_regions, h_cols, h_pc, h_i, h_col, h_buckets, h_out>>
tocVars == <<t_entries, t_pc, t_i, t_nodes, t_stack, t_roots, t_last>>
alVars == <<al_blocks, al_toc, al_pc, al_i, al_current_path,
            al_block_to_path>>
sbVars == <<sb_blocks, sb_toc, sb_pc, sb_i, sb_text_blocks, sb_table_blocks,
            sb_made>>
secVars == <<sec_blocks, sec_pc, sec_i, sec_sections, sec_current, sec_index,
             sec_file>>
plVars == <<pl_logits, pl_length, pl_pc, pl_orders, pl_ret, pl_prev,
            pl_passes>>
vlmVars == <<v_block, v_pc, v_attempt, v_calls, v_last_content, v_last_error,
             v_slept, v_result, v_log>>
ccVars == <<cc_prose, cc_frames, cc_files>>
ntVars == <<nt_number, nt_words, nt_pc, nt_long, nt_short>>
ptVars == <<pt_lines, pt_pc, pt_entries>>
vars == <<geomVars, asmVars, ordVars, tocVars, alVars, sbVars, secVars,
          plVars, vlmVars, ccVars, ntVars, ptVars>>
notGeom == <<asmVars, ordVars, tocVars, alVars, sbVars, secVars, plVars,
             vlmVars, ccVars, ntVars, ptVars>>
notAsm == <<geomVars, ordVars, tocVars, alVars, sbVars, secVars, plVars,
            vlmVars, ccVars, ntVars, ptVars>>
notOrd == <<geomVars, asmVars, tocVars, alVars, sbVars, secVars, plVars,
            vlmVars, ccVars, ntVars, ptVars>>
notToc == <<geomVars, asmVars, ordVars, alVars, sbVars, secVars, plVars,
            vlmVars, ccVars, ntVars, ptVars>>
notAl == <<geomVars, asmVars, ordVars, tocVars, sbVars, secVars, plVars,
           vlmVars, ccVars, ntVars, ptVars>>
notSb == <<geomVars, asmVars, ordVars, tocVars, alVars, secVars, plVars,
           vlmVars, ccVars, ntVars, ptVars>>
notSec == <<geomVars, asmVars, ordVars, tocVars, alVars, sbVars, plVars,
            vlmVars, ccVars, ntVars, ptVars>>
notPl == <<geomVars, asmVars, ordVars, tocVars, alVars, sbVars, secVars,
           vlmVars, ccVars, ntVars, ptVars>>
notVlm == <<geomVars, asmVars, ordVars, tocVars, alVars, sbVars, secVars,
            plVars, ccVars, ntVars, ptVars>>
notCc == <<geomVars, asmVars, ordVars, tocVars, alVars, sbVars, secVars,
           plVars, vlmVars, ntVars, ptVars>>
notNt == <<geomVars, asmVars, ordVars, tocVars, alVars, sbVars, secVars,
           plVars, vlmVars, ccVars, ptVars>>
notPt == <<geomVars, asmVars, ordVars, tocVars, alVars, sbVars, secVars,
           plVars, vlmVars, ccVars, ntVars>>

None == <<>>
Some(v) == <<v>>

Max(a, b) == IF a >= b THEN a ELSE b
Min(a, b) == IF a <= b THEN a ELSE b

(***************************************************************************)
(* utils/geometry.py                                                       *)
(***************************************************************************)
DEFAULT_MIN_OVERLAP == <<3, 10>>

\* A slip: the ratio is taken against the second box.
intersects_ratio_b2(b1, b2, min_overlap) ==
    LET x1 == Max(b1[1], b2[1])
        y1 == Max(b1[2], b2[2])
        x2 == Min(b1[3], b2[3])
        y2 == Min(b1[4], b2[4])
    IN  IF x2 <= x1 \/ y2 <= y1
        THEN FALSE
        ELSE LET inter == (x2 - x1) * (y2 - y1)
                 area == (b2[3] - b2[1]) * (b2[4] - b2[2])
             IN  inter * min_overlap[2] >= min_overlap[1] * Max(area, 1)

\* A slip: > for >= in the comparison with min_overlap.
intersects_strict_ratio(b1, b2, min_overlap) ==
    LET x1 == Max(b1[1], b2[1])
        y1 == Max(b1[2], b2[2])
        x2 == Min(b1[3], b2[3])
        y2 == Min(b1[4], b2[4])
    IN  IF x2 <= x1 \/ y2 <= y1
        THEN FALSE
        ELSE LET inter == (x2 - x1) * (y2 - y1)
                 area == (b1[3] - b1[1]) * (b1[4] - b1[2])
             IN  inter * min_overlap[2] > min_overlap[1] * Max(area, 1)

\* lines 4-15; inter / max(area, 1) >= min_overlap on integers
intersects(b1, b2, min_overlap) ==
    LET x1 == Max(b1[1], b2[1])
        y1 == Max(b1[2], b2[2])
        x2 == Min(b1[3], b2[3])
        y2 == Min(b1[4], b2[4])
    IN  IF x2 <= x1 \/ y2 <= y1
        THEN FALSE
        ELSE LET inter == (x2 - x1) * (y2 - y1)
                 area == (b1[3] - b1[1]) * (b1[4] - b1[2])
             IN  inter * min_overlap[2] >= min_overlap[1] * Max(area, 1)

\* ---- inputs of the geometry specification
MaxCoord == 2
Coords == 0 .. MaxCoord
GeomBoxes == Coords \X Coords \X Coords \X Coords
\* min_overlap in tenths: below 0, 0, the default 0.3, 0.5, 1 and above 1
MinOverlaps == { <<n, 10>> : n \in {-1, 0, 3, 5, 10, 11} }

GeomInit ==
    /\ g_a = <<0, 0, 0, 0>>
    /\ g_b = <<0, 0, 0, 0>>
    /\ g_min = DEFAULT_MIN_OVERLAP
    /\ g_res = FALSE
    /\ g_pc = "idle"

CallIntersects ==
    /\ g_pc = "idle"
    /\ \E a \in GeomBoxes, b \in GeomBoxes, m \in MinOverlaps :
          /\ g_a' = a
          /\ g_b' = b
          /\ g_min' = m
          /\ g_res' = intersects(a, b, m)
    /\ g_pc' = "returned"
    /\ UNCHANGED notGeom


\* ---- claims about intersects
\* The unit pixels a box covers: none when the box is empty or inverted.
CellsOf(b) == { <<i, j>> \in (b[1] .. b[3] - 1) \X (b[2] .. b[4] - 1) : TRUE }
InterCells(a, b) == CellsOf(a) \cap CellsOf(b)
AtMostOne(m) == m[1] <= m[2]

\* C6: intersects(a, b, min_overlap) is true exactly when the intersection
\* of a and b has positive area and intersection area / area of a is at
\* least min_overlap, the ratio being taken against a; boxes that share no
\* pixel (apart, or touching along an edge) never intersect.
C6_IntersectsIffOverlapRatio ==
    g_pc = "returned" =>
        LET inter == Cardinality(InterCells(g_a, g_b))
            area == Cardinality(CellsOf(g_a))
        IN  g_res <=> (inter > 0 /\ inter * g_min[2] >= g_min[1] * area)

C6_Witness ==
    /\ g_pc = "returned"
    /\ g_res
    /\ g_min = DEFAULT_MIN_OVERLAP
    /\ InterCells(g_a, g_b) # CellsOf(g_a)
    /\ InterCells(g_a, g_b) # CellsOf(g_b)

\* C7 as stated: every box with x0 <= x1 and y0 <= y1 intersects itself for
\* every min_overlap <= 1.
C7_SelfIntersectsWeak ==
    (g_pc = "returned" /\ g_a = g_b /\ AtMostOne(g_min)
        /\ g_a[1] <= g_a[3] /\ g_a[2] <= g_a[4]) => g_res

\* C7 amended: every box of positive area (x0 < x1 and y0 < y1) intersects
\* itself for every min_overlap <= 1.
C7_SelfIntersects ==
    (g_pc = "returned" /\ g_a = g_b /\ AtMostOne(g_min)
        /\ g_a[1] < g_a[3] /\ g_a[2] < g_a[4]) => g_res

C7_Witness ==
    /\ g_pc = "returned"
    /\ g_a = g_b
    /\ g_a[1] < g_a[3] /\ g_a[2] < g_a[4]
    /\ g_min = <<10, 10>>
    /\ g_res

(***************************************************************************)
(* blocks/assemble.py                                                      *)
(***************************************************************************)
CROP_DIR == "crops"
NOISE_LABELS == {"footer", "number", "image", "aside_text"}
TITLE_LABELS == {"paragraph_title", "figure_title"}

\* Python truthiness of an optional number (line 143)
Truthy(opt) == opt # None /\ opt[1] # 0

\* f"{order_id:05d}"
Pad5(n) ==
    CASE n < 10 -> "0000" \o ToString(n)
      [] n >= 10 /\ n < 100 -> "000" \o ToString(n)
      [] n >= 100 /\ n < 1000 -> "00" \o ToString(n)
      [] n >= 1000 /\ n < 10000 -> "0" \o ToString(n)
      [] OTHER -> ToString(n)

\* A slip: the page number is left out of the id.
BlockIdNoPage(prefix, page, oid) == prefix \o "_" \o Pad5(oid)

\* f"blk_{page_index + 1}_{order_id:05d}" and f"tbl_..."
BlockId(prefix, page, oid) ==
    prefix \o "_" \o ToString(page + 1) \o "_" \o Pad5(oid)

\* " ".join(current_text)
RECURSIVE Join(_)
Join(texts) ==
    IF texts = <<>> THEN ""
    ELSE IF Len(texts) = 1 THEN texts[1]
    ELSE texts[1] \o " " \o Join(Tail(texts))

TextBlock(page, oid, title, texts) ==
    [block_id |-> BlockId("blk", page, oid), order_id |-> oid,
     page |-> page + 1, type |-> "text", text |-> Some(Join(texts)),
     title |-> title, image_crop |-> None]

TableBlock(page, oid, title) ==
    [block_id |-> BlockId("tbl", page, oid), order_id |-> oid,
     page |-> page + 1, type |-> "table", text |-> None,
     title |-> title,
     image_crop |-> Some(CROP_DIR \o "/" \o BlockId("tbl", page, oid) \o ".png")]

\* A slip: the empty-accumulator guard of line 70 is missing.
flush_text_noguard(bl, oid, ts, ct, page) ==
    [blocks |-> Append(bl, TextBlock(page, oid, ts, ct)),
     order_id |-> oid + 1, current_text |-> <<>>]

\* A slip: order_id is advanced before the guard, on every flush.
flush_text_always_counts(bl, oid, ts, ct, page) ==
    IF ct = <<>>
    THEN [blocks |-> bl, order_id |-> oid + 1, current_text |-> ct]
    ELSE [blocks |-> Append(bl, TextBlock(page, oid, ts, ct)),
          order_id |-> oid + 1, current_text |-> <<>>]

\* flush_text: the closure's effect on (blocks, order_id, current_text)
flush_text(bl, oid, ts, ct, page) ==
    IF ct = <<>>
    THEN [blocks |-> bl, order_id |-> oid, current_text |-> ct]
    ELSE [blocks |-> Append(bl, TextBlock(page, oid, ts, ct)),
          order_id |-> oid + 1, current_text |-> <<>>]

\* the history kept beside flush_text: which positions a text block holds
FlushProv(pv, ct, src) ==
    IF ct = <<>> THEN pv ELSE Append(pv, [kind |-> "text", src |-> src])

\* line 57: every index of reading_order must address ocr_regions
OrderInRange(order, regions) ==
    \A k \in 1 .. Len(order) : order[k] >= 0 /\ order[k] < Len(regions)

OrderedOcr(order, regions) ==
    [k \in 1 .. Len(order) |-> regions[order[k] + 1]]

\* lines 60-62
TableRegions(layout) == SelectSeq(layout, LAMBDA lr : lr.label = "table")

\* position of the first region of regs that bbox intersects, 0 when none
FirstIntersecting(bbox, regs) ==
    LET hits == { i \in 1 .. Len(regs) :
                    intersects(bbox, regs[i].bbox, DEFAULT_MIN_OVERLAP) }
    IN  IF hits = {} THEN 0
        ELSE CHOOSE i \in hits : \A j \in hits : i <= j

\* A slip: the loop of lines 92-95 has no break, so the last intersecting
\* region gives the label.
LabelOfLast(bbox, layout) ==
    LET hits == { i \in 1 .. Len(layout) :
                    intersects(bbox, layout[i].bbox, DEFAULT_MIN_OVERLAP) }
    IN  IF hits = {} THEN None
        ELSE Some(layout[CHOOSE i \in hits : \A j \in hits : i >= j].label)

\* lines 91-97
LabelOf(bbox, layout) ==
    LET m == FirstIntersecting(bbox, layout)
    IN  IF m = 0 THEN None ELSE Some(layout[m].label)

\* lines 110-114: table_index, None or Some(i) with i counted from 0
TableIndexOf(bbox, layout) ==
    LET m == FirstIntersecting(bbox, TableRegions(layout))
    IN  IF m = 0 THEN None ELSE Some(m - 1)

IsNoiseLabel(label) == label # None /\ label[1] \in NOISE_LABELS
IsTitleLabel(label) == label # None /\ label[1] \in TITLE_LABELS


\* ---- inputs of the assembler specification
B_TITLE == <<0, 0, 100, 20>>     \* the title line of the end-to-end example
B_BODY == <<0, 25, 100, 40>>     \* its body line
B_LOW == <<0, 50, 100, 70>>
B_PAGE == <<0, 0, 100, 100>>     \* a region covering all three lines

\* The OCR lines a page is drawn from; reading_order picks among them.
OcrPalette ==
    << [text |-> "Introduction", bbox |-> B_TITLE, size |-> Some(14)],
       [text |-> "Body text here.", bbox |-> B_BODY, size |-> Some(10)],
       [text |-> "Cell", bbox |-> B_LOW, size |-> Some(14)],
       [text |-> "note", bbox |-> B_BODY, size |-> None] >>

LayoutPalette ==
    { [label |-> "table", bbox |-> B_PAGE],
      [label |-> "table", bbox |-> B_BODY],
      [label |-> "paragraph_title", bbox |-> B_TITLE],
      [label |-> "figure_title", bbox |-> B_LOW],
      [label |-> "footer", bbox |-> B_BODY],
      [label |-> "text", bbox |-> B_BODY] }

MaxOrder == 3       \* longest reading_order
MaxLayout == 2      \* longest layout_regions
MaxPageIndex == 1   \* page_index in 0 .. MaxPageIndex
MaxCalls == 2       \* assemble_page calls on one assembler

SeqsUpTo(S, n) == UNION { [1 .. k -> S] : k \in 0 .. n }

ProseSizes == {None, Some(8), Some(10)}

AsmIdle ==
    /\ prose_font_size = None
    /\ page_index = 0
    /\ ocr_regions = <<>>
    /\ reading_order = <<>>
    /\ layout_regions = <<>>
    /\ pc = "idle"
    /\ idx = 0
    /\ blocks = <<>>
    /\ order_id = 0
    /\ emitted_tables = {}
    /\ title_state = None
    /\ current_text = <<>>
    /\ files = {}
    /\ calls = 0
    /\ prev_blocks = None
    /\ prov = <<>>
    /\ cur_src = <<>>

\* BlockAssembler.__init__ and the arguments of the first assemble_page
AsmInit ==
    /\ prose_font_size \in ProseSizes
    /\ page_index \in 0 .. MaxPageIndex
    /\ ocr_regions \in {<<>>, OcrPalette}
    /\ reading_order \in SeqsUpTo(0 .. Len(OcrPalette) - 1, MaxOrder)
    /\ layout_regions \in SeqsUpTo(LayoutPalette, MaxLayout)
    /\ pc = "start"
    /\ idx = 0
    /\ blocks = <<>>
    /\ order_id = 0
    /\ emitted_tables = {}
    /\ title_state = None
    /\ current_text = <<>>
    /\ files = {}
    /\ calls = 0
    /\ prev_blocks = None
    /\ prov = <<>>
    /\ cur_src = <<>>

inputVars == <<prose_font_size, page_index, ocr_regions, reading_order,
               layout_regions>>

ordered_ocr == OrderedOcr(reading_order, ocr_regions)
num_ocr == Len(reading_order)
table_regions == TableRegions(layout_regions)

\* the region of the current iteration (lines 86-89) and what is derived
cur_ocr == ordered_ocr[idx + 1]
cur_label == LabelOf(cur_ocr.bbox, layout_regions)
cur_table == TableIndexOf(cur_ocr.bbox, layout_regions)
InLoop == pc = "loop" /\ idx < num_ocr
PastLabels == ~IsNoiseLabel(cur_label) /\ ~IsTitleLabel(cur_label)
PastTables == PastLabels /\ cur_table = None
UseSizes == Truthy(prose_font_size) /\ cur_ocr.size # None
prev_size == IF idx > 0 THEN ordered_ocr[idx].size ELSE None
next_size == IF idx < num_ocr - 1 THEN ordered_ocr[idx + 2].size ELSE None

\* A slip: the accumulators live on the assembler and survive a call.
BeginStale ==
    /\ pc = "start"
    /\ IF OrderInRange(reading_order, ocr_regions)
       THEN /\ pc' = "loop"
            /\ idx' = 0
            /\ blocks' = <<>>
            /\ prov' = <<>>
            /\ UNCHANGED <<order_id, emitted_tables, title_state,
                           current_text, cur_src>>
       ELSE /\ pc' = "error"
            /\ UNCHANGED <<idx, blocks, order_id, emitted_tables,
                           title_state, current_text, prov, cur_src>>
    /\ UNCHANGED <<notAsm, inputVars, files, calls, prev_blocks>>

\* lines 54-66: the locals of a call; line 57 raises IndexError
Begin ==
    /\ pc = "start"
    /\ IF OrderInRange(reading_order, ocr_regions)
       THEN /\ pc' = "loop"
            /\ idx' = 0
            /\ blocks' = <<>>
            /\ order_id' = 0
            /\ emitted_tables' = {}
            /\ title_state' = None
            /\ current_text' = <<>>
            /\ prov' = <<>>
            /\ cur_src' = <<>>
       ELSE /\ pc' = "error"
            /\ UNCHANGED <<idx, blocks, order_id, emitted_tables,
                           title_state, current_text, prov, cur_src>>
    /\ UNCHANGED <<notAsm, inputVars, files, calls, prev_blocks>>

\* lines 99-101
Noise ==
    /\ InLoop
    /\ IsNoiseLabel(cur_label)
    /\ idx' = idx + 1
    /\ UNCHANGED <<notAsm, inputVars, pc, blocks, order_id, emitted_tables,
                   title_state, current_text, files, calls, prev_blocks,
                   prov, cur_src>>

\* A slip: the title is replaced before the pending prose is flushed.
TitleEffectEarly(text) ==
    LET f == flush_text(blocks, order_id, Some(text), current_text, page_index)
    IN  /\ blocks' = f.blocks
        /\ order_id' = f.order_id
        /\ current_text' = f.current_text
        /\ prov' = FlushProv(prov, current_text, cur_src)
        /\ cur_src' = <<>>
        /\ title_state' = Some(text)

\* flush_text() then title_state = text (lines 105-106 and 159-160)
TitleEffect(text) ==
    LET f == flush_text(blocks, order_id, title_state, current_text, page_index)
    IN  /\ blocks' = f.blocks
        /\ order_id' = f.order_id
        /\ current_text' = f.current_text
        /\ prov' = FlushProv(prov, current_text, cur_src)
        /\ cur_src' = <<>>
        /\ title_state' = Some(text)

\* A slip: an explicit title closes a text Block even when no prose is
\* pending (the guard of line 70 is skipped on this path).
ExplicitTitleEmitsBlock ==
    /\ InLoop
    /\ IsTitleLabel(cur_label)
    /\ LET f == flush_text_noguard(blocks, order_id, title_state,
                                   current_text, page_index)
       IN  /\ blocks' = f.blocks
           /\ order_id' = f.order_id
           /\ current_text' = f.current_text
    /\ prov' = Append(prov, [kind |-> "text", src |-> cur_src])
    /\ cur_src' = <<>>
    /\ title_state' = Some(cur_ocr.text)
    /\ idx' = idx + 1
    /\ UNCHANGED <<notAsm, inputVars, pc, emitted_tables, files, calls, prev_blocks>>

\* lines 103-107
ExplicitTitle ==
    /\ InLoop
    /\ IsTitleLabel(cur_label)
    /\ TitleEffect(cur_ocr.text)
    /\ idx' = idx + 1
    /\ UNCHANGED <<notAsm, inputVars, pc, emitted_tables, files, calls, prev_blocks>>

\* A slip: the line replaces the pending prose instead of joining it.
AppendProseReplaces ==
    /\ current_text' = <<cur_ocr.text>>
    /\ cur_src' = Append(cur_src, idx + 1)
    /\ idx' = idx + 1
    /\ UNCHANGED <<notAsm, inputVars, pc, blocks, order_id, emitted_tables,
                   title_state, files, calls, prev_blocks, prov>>

\* current_text.append(text) (lines 146, 164, 168)
AppendProse ==
    /\ current_text' = Append(current_text, cur_ocr.text)
    /\ cur_src' = Append(cur_src, idx + 1)
    /\ idx' = idx + 1
    /\ UNCHANGED <<notAsm, inputVars, pc, blocks, order_id, emitted_tables,
                   title_state, files, calls, prev_blocks, prov>>


\* crop_region: the PNG written at out_path holds the padded crop of bbox
CropWritten(path, bbox) ==
    { f \in files : f.path # path } \cup {[path |-> path, bbox |-> bbox]}

\* A slip: the table is never marked as emitted (line 137 missing).
TableEmitUnmarked ==
    /\ InLoop
    /\ PastLabels
    /\ cur_table # None
    /\ cur_table[1] \notin emitted_tables
    /\ LET f == flush_text(blocks, order_id, title_state, current_text,
                           page_index)
           tbl == table_regions[cur_table[1] + 1]
           b == TableBlock(page_index, f.order_id, title_state)
       IN  /\ files' = CropWritten(b.image_crop[1], tbl.bbox)
           /\ blocks' = Append(f.blocks, b)
           /\ prov' = Append(FlushProv(prov, current_text, cur_src),
                             [kind |-> "table", src |-> cur_table[1]])
           /\ order_id' = f.order_id + 1
           /\ current_text' = f.current_text
    /\ cur_src' = <<>>
    /\ idx' = idx + 1
    /\ UNCHANGED <<notAsm, inputVars, pc, emitted_tables, title_state, calls,
                   prev_blocks>>

\* lines 116-140, the table seen for the first time on the page
TableEmit ==
    /\ InLoop
    /\ PastLabels
    /\ cur_table # None
    /\ cur_table[1] \notin emitted_tables
    /\ LET f == flush_text(blocks, order_id, title_state, current_text,
                           page_index)
           tbl == table_regions[cur_table[1] + 1]
           b == TableBlock(page_index, f.order_id, title_state)
       IN  /\ files' = CropWritten(b.image_crop[1], tbl.bbox)
           /\ blocks' = Append(f.blocks, b)
           /\ prov' = Append(FlushProv(prov, current_text, cur_src),
                             [kind |-> "table", src |-> cur_table[1]])
           /\ order_id' = f.order_id + 1
           /\ current_text' = f.current_text
    /\ emitted_tables' = emitted_tables \cup {cur_table[1]}
    /\ cur_src' = <<>>
    /\ idx' = idx + 1
    /\ UNCHANGED <<notAsm, inputVars, pc, title_state, calls, prev_blocks>>

\* A slip: a line of a table already emitted falls through to prose.
TableSwallowAppends ==
    /\ InLoop
    /\ PastLabels
    /\ cur_table # None
    /\ cur_table[1] \in emitted_tables
    /\ AppendProse

\* lines 116-117 and 140, the table already emitted: the line is swallowed
TableSwallow ==
    /\ InLoop
    /\ PastLabels
    /\ cur_table # None
    /\ cur_table[1] \in emitted_tables
    /\ idx' = idx + 1
    /\ UNCHANGED <<notAsm, inputVars, pc, blocks, order_id, emitted_tables,
                   title_state, current_text, files, calls, prev_blocks,
                   prov, cur_src>>

\* lines 143-147
SmallProse ==
    /\ InLoop
    /\ PastTables
    /\ UseSizes
    /\ cur_ocr.size[1] <= prose_font_size[1]
    /\ AppendProse

\* A slip: only the predecessor's size is compared (line 158).
InferredTitleOneSided ==
    /\ InLoop
    /\ PastTables
    /\ UseSizes
    /\ cur_ocr.size[1] > prose_font_size[1]
    /\ prev_size # cur_ocr.size
    /\ TitleEffect(cur_ocr.text)
    /\ idx' = idx + 1
    /\ UNCHANGED <<notAsm, inputVars, pc, emitted_tables, files, calls, prev_blocks>>

\* lines 149-161
InferredTitle ==
    /\ InLoop
    /\ PastTables
    /\ UseSizes
    /\ cur_ocr.size[1] > prose_font_size[1]
    /\ prev_size # cur_ocr.size
    /\ next_size # cur_ocr.size
    /\ TitleEffect(cur_ocr.text)
    /\ idx' = idx + 1
    /\ UNCHANGED <<notAsm, inputVars, pc, emitted_tables, files, calls, prev_blocks>>

\* lines 163-165
SameSizeProse ==
    /\ InLoop
    /\ PastTables
    /\ UseSizes
    /\ cur_ocr.size[1] > prose_font_size[1]
    /\ ~(prev_size # cur_ocr.size /\ next_size # cur_ocr.size)
    /\ AppendProse

\* lines 167-168
DefaultProse ==
    /\ InLoop
    /\ PastTables
    /\ ~UseSizes
    /\ AppendProse

\* lines 170-171
Finish ==
    /\ pc = "loop"
    /\ idx = num_ocr
    /\ LET f == flush_text(blocks, order_id, title_state, current_text,
                           page_index)
       IN  /\ blocks' = f.blocks
           /\ order_id' = f.order_id
           /\ current_text' = f.current_text
    /\ prov' = FlushProv(prov, current_text, cur_src)
    /\ cur_src' = <<>>
    /\ pc' = "done"
    /\ UNCHANGED <<notAsm, inputVars, idx, emitted_tables, title_state, files, calls,
                   prev_blocks>>

\* the caller keeps the list returned and calls again with the same input
CallAgain ==
    /\ pc = "done"
    /\ calls + 1 < MaxCalls
    /\ prev_blocks' = Some(blocks)
    /\ calls' = calls + 1
    /\ pc' = "start"
    /\ UNCHANGED <<notAsm, inputVars, idx, blocks, order_id, emitted_tables,
                   title_state, current_text, files, prov, cur_src>>

AsmNext ==
    \/ Begin
    \/ Noise
    \/ ExplicitTitle
    \/ TableEmit
    \/ TableSwallow
    \/ SmallProse
    \/ InferredTitle
    \/ SameSizeProse
    \/ DefaultProse
    \/ Finish
    \/ CallAgain


\* ---- claims about assemble_page
Returned == pc = "done"

\* What the loop does with position q of ordered_ocr, read off the inputs:
\* the first intersecting layout region decides noise and explicit titles,
\* any intersecting table region makes the line table content, and the
\* font size may make what is left a title.
HitsAt(q) ==
    { i \in 1 .. Len(layout_regions) :
        intersects(ordered_ocr[q].bbox, layout_regions[i].bbox,
                   DEFAULT_MIN_OVERLAP) }
FirstLabelAt(q) ==
    IF HitsAt(q) = {} THEN "none"
    ELSE layout_regions[CHOOSE i \in HitsAt(q) : \A j \in HitsAt(q) : i <= j].label
SizeAt(q) == IF q \in 1 .. num_ocr THEN ordered_ocr[q].size ELSE None
InferredAt(q) ==
    /\ prose_font_size # None
    /\ SizeAt(q) # None
    /\ SizeAt(q)[1] > prose_font_size[1]
    /\ SizeAt(q - 1) # SizeAt(q)
    /\ SizeAt(q + 1) # SizeAt(q)
KindAt(q) ==
    IF FirstLabelAt(q) \in NOISE_LABELS THEN "noise"
    ELSE IF FirstLabelAt(q) \in TITLE_LABELS THEN "title"
    ELSE IF \E i \in HitsAt(q) : layout_regions[i].label = "table" THEN "table"
    ELSE IF InferredAt(q) THEN "title"
    ELSE "prose"
Positions == 1 .. num_ocr

\* C1: two calls on the same assembler with the same input return lists of
\* equal length that agree position by position on every Block field; the
\* second call is not affected by the first.
C1_RepeatedCallAgrees ==
    (Returned /\ prev_blocks # None) =>
        /\ Len(blocks) = Len(prev_blocks[1])
        /\ \A k \in 1 .. Len(blocks) :
              /\ blocks[k].block_id = prev_blocks[1][k].block_id
              /\ blocks[k].order_id = prev_blocks[1][k].order_id
              /\ blocks[k].page = prev_blocks[1][k].page
              /\ blocks[k].type = prev_blocks[1][k].type
              /\ blocks[k].text = prev_blocks[1][k].text
              /\ blocks[k].title = prev_blocks[1][k].title
              /\ blocks[k].image_crop = prev_blocks[1][k].image_crop

C1_Witness ==
    /\ Returned
    /\ prev_blocks # None
    /\ \E j, k \in 1 .. Len(blocks) :
          /\ blocks[j].type = "text"
          /\ blocks[k].type = "table"
          /\ blocks[k].title # None

\* the table Blocks made from table region i (counted from 0)
TableBlocksOf(i) ==
    { k \in 1 .. Len(blocks) : prov[k].kind = "table" /\ prov[k].src = i }
TableIds == 0 .. Len(table_regions) - 1
\* the OCR regions (indices of ocr_regions) that reach the table step and ...
ReachTableStep ==
    { q \in Positions : FirstLabelAt(q) \notin NOISE_LABELS \cup TITLE_LABELS }
\* ... intersect table region i
Touching(i) ==
    { reading_order[q] : q \in { p \in ReachTableStep :
        intersects(ordered_ocr[p].bbox, table_regions[i + 1].bbox,
                   DEFAULT_MIN_OVERLAP) } }
\* ... have table region i as the first table region they intersect
FirstTouching(i) ==
    { reading_order[q] : q \in { p \in ReachTableStep :
        /\ intersects(ordered_ocr[p].bbox, table_regions[i + 1].bbox,
                      DEFAULT_MIN_OVERLAP)
        /\ \A j \in 1 .. i :
              ~intersects(ordered_ocr[p].bbox, table_regions[j].bbox,
                          DEFAULT_MIN_OVERLAP) } }
AtMostOneBlockPerTable ==
    /\ \A k \in 1 .. Len(blocks) :
          (blocks[k].type = "table") <=> (prov[k].kind = "table")
    /\ \A i \in TableIds : Cardinality(TableBlocksOf(i)) <= 1

\* C2 as stated: at most one table Block per table region, and exactly one
\* for a table region that two OCR regions reaching the table step intersect.
C2_OneBlockPerTouchedTable ==
    /\ AtMostOneBlockPerTable
    /\ Returned =>
          \A i \in TableIds :
              Cardinality(Touching(i)) >= 2 => Cardinality(TableBlocksOf(i)) = 1

\* C2 amended: at most one table Block per table region, and exactly one for
\* a table region that is the first table region, in layout_regions order,
\* intersected by two OCR regions reaching the table step.
C2_OneBlockPerFirstTouchedTable ==
    /\ AtMostOneBlockPerTable
    /\ Returned =>
          \A i \in TableIds :
              Cardinality(FirstTouching(i)) >= 2 =>
                  Cardinality(TableBlocksOf(i)) = 1

C2_Witness ==
    /\ Returned
    /\ \E i \in TableIds :
          /\ Cardinality(FirstTouching(i)) >= 2
          /\ Cardinality(TableBlocksOf(i)) = 1

\* C3: the i-th Block of the list has order_id i, counted from 0, and
\* order_id always equals the number of Blocks emitted so far: it moves once
\* per emitted Block and not on noise, titles, empty flushes or swallowed
\* table lines.
C3_OrderIdIsPosition ==
    /\ order_id = Len(blocks)
    /\ \A k \in 1 .. Len(blocks) : blocks[k].order_id = k - 1

C3_Witness ==
    /\ Returned
    /\ Len(blocks) = 2
    /\ num_ocr = 3
    /\ \E q \in Positions : KindAt(q) \in {"noise", "title"}

\* the title regions before position q, and the title in force at q
TitlesBefore(q) == { p \in Positions : p < q /\ KindAt(p) = "title" }
TitleInForce(q) ==
    IF TitlesBefore(q) = {} THEN None
    ELSE Some(ordered_ocr[CHOOSE p \in TitlesBefore(q) :
                            \A r \in TitlesBefore(q) : r <= p].text)
ExampleInput ==
    /\ OrderInRange(reading_order, ocr_regions)
    /\ num_ocr = 2
    /\ ordered_ocr[1] = [text |-> "Introduction", bbox |-> <<0, 0, 100, 20>>,
                         size |-> Some(14)]
    /\ ordered_ocr[2] = [text |-> "Body text here.",
                         bbox |-> <<0, 25, 100, 40>>, size |-> Some(10)]
    /\ layout_regions = <<[label |-> "paragraph_title",
                           bbox |-> <<0, 0, 100, 20>>]>>
    /\ KindAt(2) = "prose"

\* C4: a text Block carries the text of the last title region before its
\* prose regions, or no title when there is none; no title region lies
\* between the prose regions of one Block; the end-to-end example, its body
\* line being prose, yields one text Block titled "Introduction" with text
\* "Body text here.".
C4_TitleIsLastPrecedingTitle ==
    /\ \A k \in 1 .. Len(blocks) :
          prov[k].kind = "text" =>
              LET src == prov[k].src
              IN  /\ src # <<>>
                  /\ \A n \in 1 .. Len(src) :
                        blocks[k].title = TitleInForce(src[n])
    /\ (Returned /\ ExampleInput) =>
          /\ Len(blocks) = 1
          /\ blocks[1].type = "text"
          /\ blocks[1].title = Some("Introduction")
          /\ blocks[1].text = Some("Body text here.")

C4_Witness ==
    /\ Returned
    /\ Len(blocks) = 2
    /\ prov[1].kind = "text" /\ prov[2].kind = "text"
    /\ blocks[1].title = None
    /\ blocks[2].title = Some("Introduction")

\* C5: with no OCR regions and an empty reading order the call raises
\* nothing and returns the empty list, whatever the layout regions and the
\* prose font size.
C5_EmptyPageEmptyList ==
    (ocr_regions = <<>> /\ reading_order = <<>>) =>
        /\ pc # "error"
        /\ Returned => blocks = <<>>

C5_Witness ==
    /\ Returned
    /\ ocr_regions = <<>>
    /\ reading_order = <<>>
    /\ Len(layout_regions) = MaxLayout
    /\ prose_font_size # None
    /\ blocks = <<>>

\* the region at position q also intersects a title or table region that
\* comes after the first region it intersects
LaterTitleOrTable(q) ==
    \E i \in HitsAt(q) :
        /\ \E j \in HitsAt(q) : j < i
        /\ layout_regions[i].label \in TITLE_LABELS \cup {"table"}

\* C27: an iteration on a region whose first intersecting layout region,
\* in list order, is labelled footer, number, image or aside_text only
\* moves to the next region: blocks, order_id, title_state, current_text
\* and emitted_tables are unchanged, whatever the region intersects later
\* in the list.
C27_NoiseLeavesStateAlone ==
    [][(InLoop /\ FirstLabelAt(idx + 1) \in NOISE_LABELS)
          => /\ idx' = idx + 1
             /\ UNCHANGED <<blocks, order_id, title_state, current_text,
                            emitted_tables>>]_vars

C27_Witness ==
    /\ pc = "loop"
    /\ idx = 2
    /\ KindAt(1) = "prose"
    /\ FirstLabelAt(2) \in NOISE_LABELS
    /\ LaterTitleOrTable(2)
    /\ blocks = <<>>
    /\ order_id = 0
    /\ title_state = None
    /\ current_text = <<ordered_ocr[1].text>>
    /\ emitted_tables = {}

\* the region at position q intersects a table-labelled layout region
TouchesTable(q) ==
    \E i \in HitsAt(q) : layout_regions[i].label = "table"
\* the first of them in layout_regions order, counted among the table
\* regions from 0
FirstTableAt(q) ==
    LET first == CHOOSE i \in HitsAt(q) :
                    /\ layout_regions[i].label = "table"
                    /\ \A j \in HitsAt(q) :
                          layout_regions[j].label = "table" => i <= j
    IN  Cardinality({ j \in 1 .. first - 1 :
                        layout_regions[j].label = "table" })
TextsAt(positions) ==
    [n \in 1 .. Len(positions) |-> ordered_ocr[positions[n]].text]
\* every text Block and the pending prose are made of the texts of
\* regions that intersect no table region
NoTableTextInProse ==
    pc \in {"loop", "done"} =>
        /\ Len(prov) = Len(blocks)
        /\ \A k \in 1 .. Len(blocks) :
              blocks[k].type = "text" =>
                  /\ prov[k].kind = "text"
                  /\ blocks[k].text = Some(Join(TextsAt(prov[k].src)))
                  /\ \A n \in 1 .. Len(prov[k].src) :
                        ~TouchesTable(prov[k].src[n])
        /\ current_text = TextsAt(cur_src)
        /\ \A n \in 1 .. Len(cur_src) : ~TouchesTable(cur_src[n])
\* the iteration that makes the Block of a table: the pending prose
\* becomes a text Block, the table Block follows it and carries the
\* title_state of before the iteration
TableAfterPendingProse ==
    (/\ InLoop
     /\ KindAt(idx + 1) = "table"
     /\ FirstTableAt(idx + 1) \notin emitted_tables)
        => /\ SubSeq(blocks', 1, Len(blocks)) = blocks
           /\ Len(blocks') = Len(blocks) + (IF current_text = <<>> THEN 1 ELSE 2)
           /\ current_text # <<>> =>
                  /\ blocks'[Len(blocks) + 1].type = "text"
                  /\ blocks'[Len(blocks) + 1].text = Some(Join(current_text))
                  /\ blocks'[Len(blocks) + 1].title = title_state
           /\ blocks'[Len(blocks')].type = "table"
           /\ blocks'[Len(blocks')].title = title_state
           /\ current_text' = <<>>
           /\ title_state' = title_state

\* C28: the text of an OCR region that intersects a table-labelled layout
\* region is in the text of no text Block and never in the pending prose,
\* whether the region makes the table's Block or the table was emitted
\* earlier on the page; the region that makes the table's Block flushes
\* the pending prose before the table Block, which carries the current
\* title_state.
C28_TableSwallowsOcr ==
    /\ []NoTableTextInProse
    /\ [][TableAfterPendingProse]_vars

C28_Witness ==
    /\ Returned
    /\ num_ocr = 3
    /\ KindAt(1) = "prose"
    /\ KindAt(2) = "table"
    /\ KindAt(3) = "table"
    /\ FirstTableAt(3) = FirstTableAt(2)
    /\ Len(blocks) = 2
    /\ blocks[1].type = "text"
    /\ blocks[2].type = "table"

\* the iteration appends the region's text to the pending prose
AppendedToProse ==
    /\ current_text' = Append(current_text, ordered_ocr[idx + 1].text)
    /\ UNCHANGED <<blocks, order_id, title_state, emitted_tables>>
\* the iteration flushes the pending prose and takes the region's text as
\* the title
MadeTitle ==
    /\ title_state' = Some(ordered_ocr[idx + 1].text)
    /\ current_text' = <<>>
    /\ IF current_text = <<>>
       THEN UNCHANGED <<blocks, order_id>>
       ELSE /\ Len(blocks') = Len(blocks) + 1
            /\ SubSeq(blocks', 1, Len(blocks)) = blocks
            /\ blocks'[Len(blocks')].text = Some(Join(current_text))
            /\ blocks'[Len(blocks')].title = title_state
    /\ UNCHANGED emitted_tables
\* the region at position q is neither noise, explicit title nor table
\* content
SizeDecides(q) ==
    /\ FirstLabelAt(q) \notin NOISE_LABELS \cup TITLE_LABELS
    /\ ~TouchesTable(q)

\* C29: with a prose font size configured (line 143: neither None nor 0),
\* a region that is neither
\* noise, explicit title nor table content goes to prose when its size is
\* at most the prose size; becomes the title, after a flush, when its size
\* is larger and differs from the sizes of the regions just before and
\* just after it in reading order, whatever those regions are, a missing
\* one counting as different; and goes to prose in every other case.
C29_SizeClassification ==
    [][(/\ InLoop
        /\ prose_font_size # None
        /\ prose_font_size[1] # 0
        /\ SizeDecides(idx + 1))
          => /\ idx' = idx + 1
             /\ IF /\ SizeAt(idx + 1) # None
                   /\ SizeAt(idx + 1)[1] <= prose_font_size[1]
                THEN AppendedToProse
                ELSE IF /\ SizeAt(idx + 1) # None
                        /\ SizeAt(idx + 1)[1] > prose_font_size[1]
                        /\ SizeAt(idx) # SizeAt(idx + 1)
                        /\ SizeAt(idx + 2) # SizeAt(idx + 1)
                THEN MadeTitle
                ELSE AppendedToProse]_vars

\* a large line made the title at the end of the page, next to a noise or
\* table line of another size, with a line of its own size just beyond
C29_Witness ==
    /\ Returned
    /\ prose_font_size # None
    /\ num_ocr = 3
    /\ SizeDecides(1)
    /\ KindAt(2) \in {"noise", "table"}
    /\ SizeDecides(3)
    /\ SizeAt(3) # None
    /\ SizeAt(3)[1] > prose_font_size[1]
    /\ SizeAt(1) = SizeAt(3)
    /\ SizeAt(2) # SizeAt(3)
    /\ title_state = Some(ordered_ocr[3].text)

\* a large line kept as prose because the line after it has its size
C29_WitnessSameSize ==
    /\ Returned
    /\ prose_font_size # None
    /\ num_ocr = 2
    /\ SizeDecides(1)
    /\ SizeAt(1) # None
    /\ SizeAt(1)[1] > prose_font_size[1]
    /\ SizeAt(2) = SizeAt(1)
    /\ blocks # <<>>
    /\ blocks[1].text = Some(Join(<<ordered_ocr[1].text, ordered_ocr[2].text>>))

\* the positions of reading_order that reach the prose path, in order
ProsePositions ==
    SelectSeq([q \in 1 .. num_ocr |-> q], LAMBDA q : KindAt(q) = "prose")
\* the places of the text Blocks in the list returned, in order
TextBlockPlaces ==
    SelectSeq([k \in 1 .. Len(blocks) |-> k],
              LAMBDA k : blocks[k].type = "text")
RECURSIVE ConcatAll(_)
ConcatAll(seqs) ==
    IF seqs = <<>> THEN <<>> ELSE Head(seqs) \o ConcatAll(Tail(seqs))

\* C31: in the list returned the text Blocks, read in list order, hold the
\* texts of the regions that reach the prose path, in reading order, each
\* region in exactly one Block; the text of a text Block is the texts of
\* its regions joined by spaces, there is at least one of them and all of
\* them lie under the same title, which is the Block's.
C31_ProseKeptOnce ==
    Returned =>
        /\ Len(prov) = Len(blocks)
        /\ ConcatAll([n \in 1 .. Len(TextBlockPlaces) |->
                        prov[TextBlockPlaces[n]].src]) = ProsePositions
        /\ \A n \in 1 .. Len(TextBlockPlaces) :
              LET k == TextBlockPlaces[n]
              IN  /\ prov[k].kind = "text"
                  /\ prov[k].src # <<>>
                  /\ blocks[k].text = Some(Join(TextsAt(prov[k].src)))
                  /\ \A m \in 1 .. Len(prov[k].src) :
                        TitleInForce(prov[k].src[m]) = blocks[k].title
        /\ Join([n \in 1 .. Len(TextBlockPlaces) |->
                    blocks[TextBlockPlaces[n]].text[1]])
              = Join(TextsAt(ProsePositions))

C31_Witness ==
    /\ Returned
    /\ num_ocr = 3
    /\ KindAt(1) = "prose"
    /\ KindAt(2) = "title"
    /\ KindAt(3) = "prose"
    /\ TextBlockPlaces = <<1, 2>>
    /\ blocks[1].text = Some(ordered_ocr[1].text)
    /\ blocks[2].text = Some(ordered_ocr[3].text)
    /\ blocks[2].title = Some(ordered_ocr[2].text)

\* two prose lines in one Block, closed by a table
C31_WitnessJoined ==
    /\ Returned
    /\ num_ocr = 3
    /\ ProsePositions = <<1, 2>>
    /\ KindAt(3) = "table"
    /\ Len(blocks) = 2
    /\ blocks[1].text
          = Some(Join(<<ordered_ocr[1].text, ordered_ocr[2].text>>))

\* the positions whose region is table content and meets its table first
TriggerPositions ==
    { q \in Positions :
        /\ KindAt(q) = "table"
        /\ \A r \in 1 .. q - 1 :
              KindAt(r) = "table" => FirstTableAt(r) # FirstTableAt(q) }
\* the last title region before position q, 0 when there is none
LastTitleBefore(q) ==
    IF TitlesBefore(q) = {} THEN 0
    ELSE CHOOSE p \in TitlesBefore(q) : \A r \in TitlesBefore(q) : r <= p
\* the position whose region made Block k: its first prose line, or the
\* line that met its table first
MakerOf(k) ==
    IF prov[k].kind = "text" THEN prov[k].src[1]
    ELSE CHOOSE q \in TriggerPositions : FirstTableAt(q) = prov[k].src
\* a title region with no prose line and no first-seen table between it
\* and the next title region or the end of the page
Barren(p) ==
    /\ KindAt(p) = "title"
    /\ \A q \in p + 1 .. num_ocr :
          (KindAt(q) = "prose" \/ q \in TriggerPositions)
              => \E r \in p + 1 .. q - 1 : KindAt(r) = "title"
TitleTextAt(p) == IF p = 0 THEN None ELSE Some(ordered_ocr[p].text)

\* C32: the list returned has at most one Block per prose region plus one
\* per table region; every Block is made by a prose line or by the first
\* line of a table and carries the last title before that line, no title
\* when there is none (title_state starts empty on every call), so a
\* title region followed by no prose line and no first-seen table before
\* the next title or the end of the page is the title of no Block.
C32_TitleAloneMakesNoBlock ==
    /\ (pc = "loop" /\ idx = 0) => title_state = None
    /\ Returned =>
          /\ Len(prov) = Len(blocks)
          /\ Len(blocks) <= Len(ProsePositions) + Len(table_regions)
          /\ Len(blocks) <= Len(ProsePositions) + Cardinality(TriggerPositions)
          /\ \A k \in 1 .. Len(blocks) :
                /\ prov[k].kind = "text" => prov[k].src # <<>>
                /\ prov[k].kind = "table" =>
                      \E q \in TriggerPositions : FirstTableAt(q) = prov[k].src
                /\ blocks[k].title = TitleTextAt(LastTitleBefore(MakerOf(k)))
                /\ LastTitleBefore(MakerOf(k)) # 0
                      => ~Barren(LastTitleBefore(MakerOf(k)))
          /\ \A p \in Positions :
                (/\ Barren(p)
                 /\ \A r \in Positions :
                       (KindAt(r) = "title" /\ ~Barren(r))
                           => ordered_ocr[r].text # ordered_ocr[p].text)
                    => \A k \in 1 .. Len(blocks) :
                          blocks[k].title # Some(ordered_ocr[p].text)

C32_Witness ==
    /\ Returned
    /\ num_ocr = 3
    /\ Barren(1)
    /\ KindAt(2) = "title"
    /\ ordered_ocr[2].text # ordered_ocr[1].text
    /\ KindAt(3) \in {"prose", "table"}
    /\ Len(blocks) = 1
    /\ blocks[1].title = Some(ordered_ocr[2].text)

(***************************************************************************)
(* layout/order.py: heuristic_reading_order                                *)
(*                                                                         *)
(* A region is its bbox <<x0, y0, x1, y1>>.  col_width is the rational     *)
(* page_width / num_columns and center_x the rational (x0 + x1) / 2, so    *)
(* center_x // col_width is the floor of (x0 + x1) * num_columns over      *)
(* 2 * page_width, which is what the float floor division returns for      *)
(* pixel-sized operands.                                                   *)
(***************************************************************************)
SeqMax(s) == CHOOSE m \in {s[i] : i \in 1 .. Len(s)} :
                \A i \in 1 .. Len(s) : s[i] <= m

\* line 113
PageWidth(regions) == SeqMax([i \in 1 .. Len(regions) |-> regions[i][3]])

\* lines 118-121, page_width > 0
column_index(region, page_width, num_columns) ==
    Min(((region[1] + region[3]) * num_columns) \div (2 * page_width),
        num_columns - 1)

\* A slip: the key is (x0, y0), left-to-right before top-to-bottom.
KeyLeqLeftFirst(a, b) == a[1] < b[1] \/ (a[1] = b[1] /\ a[2] <= b[2])

\* the sort key of line 136: (y0, x0), compared as Python compares tuples
KeyLeq(a, b) == a[2] < b[2] \/ (a[2] = b[2] /\ a[1] <= b[1])

\* list.sort is stable: an item goes after every item whose key is <= its own
InsertSorted(sorted, item, regions) ==
    LET p == Cardinality({ k \in 1 .. Len(sorted) :
                             KeyLeq(regions[sorted[k] + 1], regions[item + 1]) })
    IN  SubSeq(sorted, 1, p) \o <<item>> \o SubSeq(sorted, p + 1, Len(sorted))

RECURSIVE SortItems(_, _, _)
SortItems(items, done, regions) ==
    IF items = <<>> THEN done
    ELSE SortItems(Tail(items), InsertSorted(done, Head(items), regions),
                   regions)

\* lines 135-140: col_items.sort(key = (y0, x0)); items are region indices
SortedColumn(items, regions) == SortItems(items, <<>>, regions)

\* buckets.get(col, [])
BucketGet(buckets, col) == IF col \in DOMAIN buckets THEN buckets[col] ELSE <<>>

\* ---- inputs
MaxRegions == 3     \* longest ocr_regions
MaxColumns == 3     \* num_columns in 0 .. MaxColumns

\* The pixel columns and rows the bboxes are drawn from: every box of height
\* 1 with x0, x1 among HXs and y0 among HTops (y1 is never read).
HXs == {0, 1, 2}
HTops == {0, 1}
HBoxes == { <<x0, y0, x1, y0 + 1>> : x0 \in HXs, x1 \in HXs, y0 \in HTops }
WellFormed(b) == b[1] <= b[3] /\ b[2] <= b[4]

OrdIdle ==
    /\ h_regions = <<>>
    /\ h_cols = 1
    /\ h_pc = "idle"
    /\ h_i = 0
    /\ h_col = 0
    /\ h_buckets = <<>>
    /\ h_out = <<>>

OrdInit ==
    /\ h_regions \in SeqsUpTo({ b \in HBoxes : WellFormed(b) }, MaxRegions)
    /\ h_cols \in 0 .. MaxColumns
    /\ h_pc = "start"
    /\ h_i = 0
    /\ h_col = 0
    /\ h_buckets = <<>>
    /\ h_out = <<>>

\* lines 109-110: num_columns < 1 is rejected
RejectColumns ==
    /\ h_pc = "start"
    /\ h_cols < 1
    /\ h_pc' = "ValueError"
    /\ UNCHANGED <<notOrd, h_regions, h_cols, h_i, h_col, h_buckets, h_out>>

\* line 113: max() of an empty sequence raises ValueError
EmptyMax ==
    /\ h_pc = "start"
    /\ h_cols >= 1
    /\ h_regions = <<>>
    /\ h_pc' = "ValueError"
    /\ UNCHANGED <<notOrd, h_regions, h_cols, h_i, h_col, h_buckets, h_out>>

\* lines 113-124
Widths ==
    /\ h_pc = "start"
    /\ h_cols >= 1
    /\ h_regions # <<>>
    /\ h_pc' = "assign"
    /\ h_i' = 0
    /\ h_buckets' = <<>>
    /\ UNCHANGED <<notOrd, h_regions, h_cols, h_col, h_out>>

\* line 121 with col_width = 0.0: float floor division by zero
ZeroWidth ==
    /\ h_pc = "assign"
    /\ h_i < Len(h_regions)
    /\ PageWidth(h_regions) = 0
    /\ h_pc' = "ZeroDivisionError"
    /\ UNCHANGED <<notOrd, h_regions, h_cols, h_i, h_col, h_buckets, h_out>>

\* lines 125-127: one region goes to its bucket
Assign ==
    /\ h_pc = "assign"
    /\ h_i < Len(h_regions)
    /\ PageWidth(h_regions) # 0
    /\ LET col == column_index(h_regions[h_i + 1], PageWidth(h_regions), h_cols)
       IN  h_buckets' =
             [c \in DOMAIN h_buckets \cup {col} |->
                IF c = col THEN Append(BucketGet(h_buckets, c), h_i)
                ELSE h_buckets[c]]
    /\ h_i' = h_i + 1
    /\ UNCHANGED <<notOrd, h_regions, h_cols, h_pc, h_col, h_out>>

\* line 129
Assigned ==
    /\ h_pc = "assign"
    /\ h_i = Len(h_regions)
    /\ h_pc' = "emit"
    /\ h_col' = 0
    /\ h_out' = <<>>
    /\ UNCHANGED <<notOrd, h_regions, h_cols, h_i, h_buckets>>

\* lines 131-142: one column is sorted and appended
EmitColumn ==
    /\ h_pc = "emit"
    /\ h_col < h_cols
    /\ h_out' = h_out \o SortedColumn(BucketGet(h_buckets, h_col), h_regions)
    /\ h_col' = h_col + 1
    /\ UNCHANGED <<notOrd, h_regions, h_cols, h_pc, h_i, h_buckets>>

\* line 144
ReturnOrder ==
    /\ h_pc = "emit"
    /\ h_col = h_cols
    /\ h_pc' = "done"
    /\ UNCHANGED <<notOrd, h_regions, h_cols, h_i, h_col, h_buckets, h_out>>

OrdNext ==
    \/ RejectColumns
    \/ EmptyMax
    \/ Widths
    \/ ZeroWidth
    \/ Assign
    \/ Assigned
    \/ EmitColumn
    \/ ReturnOrder


\* ---- claims about heuristic_reading_order
Raised == h_pc \in {"ValueError", "ZeroDivisionError"}
RegionIds == 0 .. Len(h_regions) - 1
IsPermutation(out) ==
    /\ Len(out) = Len(h_regions)
    /\ \A i \in RegionIds : Cardinality({ k \in 1 .. Len(out) : out[k] = i }) = 1

\* C8: for a non-empty region list and num_columns >= 1 the call returns a
\* list holding every index 0 .. n-1 exactly once.
C8_ReturnsPermutation ==
    (h_regions # <<>> /\ h_cols >= 1) =>
        /\ ~Raised
        /\ h_pc = "done" => IsPermutation(h_out)

\* C24: on an empty region list and num_columns >= 1 the call raises
\* nothing and returns the empty order.
C24_EmptyPageEmptyOrder ==
    (h_regions = <<>> /\ h_cols >= 1) =>
        /\ ~Raised
        /\ h_pc = "done" => h_out = <<>>

\* The bucket of region i: bucket k holds the centers c with
\* k * page_width / num_columns <= c < (k + 1) * page_width / num_columns,
\* the last bucket also the right edge of the page.
CenterTimes2(i) == h_regions[i + 1][1] + h_regions[i + 1][3]
BucketOf(i) ==
    LET w == PageWidth(h_regions)
    IN  CHOOSE k \in 0 .. h_cols - 1 :
          \/ /\ k * 2 * w <= CenterTimes2(i) * h_cols
             /\ CenterTimes2(i) * h_cols < (k + 1) * 2 * w
          \/ /\ k = h_cols - 1
             /\ CenterTimes2(i) * h_cols >= h_cols * 2 * w
TopOf(i) == h_regions[i + 1][2]
LeftOf(i) == h_regions[i + 1][1]
\* (top, left, input position) of i before that of j
TopLeftBefore(i, j) ==
    \/ TopOf(i) < TopOf(j)
    \/ TopOf(i) = TopOf(j) /\ LeftOf(i) < LeftOf(j)
    \/ TopOf(i) = TopOf(j) /\ LeftOf(i) = LeftOf(j) /\ i < j
ReadsBefore(i, j) ==
    \/ BucketOf(i) < BucketOf(j)
    \/ BucketOf(i) = BucketOf(j) /\ TopLeftBefore(i, j)

\* C9: the order returned lists every region once, sorted by (column
\* bucket of the horizontal center, top, left) with ties in input order;
\* with one column it is the regions sorted by (top, left).
C9_SortedByBucketTopLeft ==
    h_pc = "done" =>
        /\ IsPermutation(h_out)
        /\ \A k \in 1 .. Len(h_out) - 1 : ReadsBefore(h_out[k], h_out[k + 1])
        /\ h_cols = 1 =>
              \A k \in 1 .. Len(h_out) - 1 :
                  TopLeftBefore(h_out[k], h_out[k + 1])

C9_Witness ==
    /\ h_pc = "done"
    /\ h_cols = 2
    /\ Len(h_out) = 3
    /\ h_out = <<2, 0, 1>>
    /\ BucketOf(0) = 1 /\ BucketOf(1) = 1 /\ BucketOf(2) = 0
    /\ h_regions[1] = h_regions[2]

(***************************************************************************)
(* ocr/toc.py: build_toc_tree                                              *)
(*                                                                         *)
(* The node dicts are objects shared by stack, roots and children lists;   *)
(* t_nodes holds them in creation order and a reference to a node is its   *)
(* creation number, so that appending to stack[-1]["children"] changes     *)
(* the one node every holder sees.                                         *)
(***************************************************************************)
\* lines 99-105
NewNode(e) ==
    [title |-> e.title, page_start |-> e.page_start, page_end |-> None,
     level |-> e.level, children |-> <<>>]

\* A slip: > for >=, so an entry of equal level stays open as a parent.
RECURSIVE PopWhileStrict(_, _, _)
PopWhileStrict(stack, nodes, level) ==
    IF stack # <<>> /\ nodes[stack[Len(stack)]].level > level
    THEN PopWhileStrict(SubSeq(stack, 1, Len(stack) - 1), nodes, level)
    ELSE stack

\* A slip: if for while, so at most one entry is closed.
PopWhileOnce(stack, nodes, level) ==
    IF stack # <<>> /\ nodes[stack[Len(stack)]].level >= level
    THEN SubSeq(stack, 1, Len(stack) - 1)
    ELSE stack

\* lines 107-108
RECURSIVE PopWhile(_, _, _)
PopWhile(stack, nodes, level) ==
    IF stack # <<>> /\ nodes[stack[Len(stack)]].level >= level
    THEN PopWhile(SubSeq(stack, 1, Len(stack) - 1), nodes, level)
    ELSE stack

\* ---- inputs
MaxEntries == 4     \* longest entries list
MaxLevel == 2       \* level in 0 .. MaxLevel
TocTitles == {"Chapter"}
TocStarts == {None, Some(10), Some(20)}
TocEntries == [title : TocTitles, page_start : TocStarts, level : 0 .. MaxLevel]

TocIdle ==
    /\ t_entries = <<>>
    /\ t_pc = "idle"
    /\ t_i = 0
    /\ t_nodes = <<>>
    /\ t_stack = <<>>
    /\ t_roots = <<>>
    /\ t_last = None

\* lines 95-96
TocInit ==
    /\ t_entries \in SeqsUpTo(TocEntries, MaxEntries)
    /\ t_pc = "loop"
    /\ t_i = 0
    /\ t_nodes = <<>>
    /\ t_stack = <<>>
    /\ t_roots = <<>>
    /\ t_last = None

\* lines 98-115 when the stack is empty after the pops: a new root
AttachRoot ==
    /\ t_pc = "loop"
    /\ t_i < Len(t_entries)
    /\ LET node == NewNode(t_entries[t_i + 1])
           kept == PopWhile(t_stack, t_nodes, node.level)
       IN  /\ kept = <<>>
           /\ t_nodes' = Append(t_nodes, node)
           /\ t_roots' = Append(t_roots, t_i + 1)
           /\ t_stack' = Append(kept, t_i + 1)
    /\ t_i' = t_i + 1
    /\ UNCHANGED <<notToc, t_entries, t_pc, t_last>>

\* lines 98-115 when an entry stays on the stack: its new child
AttachChild ==
    /\ t_pc = "loop"
    /\ t_i < Len(t_entries)
    /\ LET node == NewNode(t_entries[t_i + 1])
           kept == PopWhile(t_stack, t_nodes, node.level)
           top == kept[Len(kept)]
       IN  /\ kept # <<>>
           /\ t_nodes' = Append(
                [t_nodes EXCEPT ![top].children = Append(@, t_i + 1)], node)
           /\ t_stack' = Append(kept, t_i + 1)
    /\ t_i' = t_i + 1
    /\ UNCHANGED <<notToc, t_entries, t_pc, t_roots, t_last>>

\* line 117
ReturnRoots ==
    /\ t_pc = "loop"
    /\ t_i = Len(t_entries)
    /\ t_pc' = "done"
    /\ UNCHANGED <<notToc, t_entries, t_i, t_nodes, t_stack, t_roots, t_last>>

(***************************************************************************)
(* compute_page_ranges, in ocr/toc.py and in scripts/extract_toc.py.  Both *)
(* mutate the forest in place; build_toc_tree of scripts/extract_toc.py    *)
(* (lines 100-121) is the one of ocr/toc.py on TOCEntry objects, so the    *)
(* forest of the actions above is the input of either.                     *)
(***************************************************************************)
\* ocr/toc.py lines 134-140
RECURSIVE fill_missing_starts(_, _)
fill_missing_starts(items, nodes) ==
    IF items = <<>> THEN nodes
    ELSE LET n == Head(items)
             ch == nodes[n].children
             below == IF ch # <<>> THEN fill_missing_starts(ch, nodes)
                      ELSE nodes
             filled == IF ch # <<>> /\ below[n].page_start = None
                       THEN [below EXCEPT
                               ![n].page_start = below[ch[1]].page_start]
                       ELSE below
         IN  fill_missing_starts(Tail(items), filled)

\* A slip: the - 1 of line 152 is lost.
RECURSIVE assign_ends_next_start(_, _, _, _)
assign_ends_next_start(siblings, i, inherited_end, nodes) ==
    IF i > Len(siblings) THEN nodes
    ELSE LET n == siblings[i]
             node == nodes[n]
             has_next == i + 1 <= Len(siblings)
             end == IF node.page_start = None THEN inherited_end
                    ELSE IF has_next
                            /\ nodes[siblings[i + 1]].page_start # None
                         THEN Max(node.page_start[1],
                                  nodes[siblings[i + 1]].page_start[1])
                         ELSE inherited_end
             set == [nodes EXCEPT ![n].page_end = Some(end)]
             down == IF node.children # <<>>
                     THEN assign_ends_next_start(node.children, 1, end, set)
                     ELSE set
         IN  assign_ends_next_start(siblings, i + 1, inherited_end, down)

\* A slip: the children are handed the bound their parent inherited
\* instead of their parent's own page_end (line 158).
RECURSIVE assign_ends_same_bound(_, _, _, _)
assign_ends_same_bound(siblings, i, inherited_end, nodes) ==
    IF i > Len(siblings) THEN nodes
    ELSE LET n == siblings[i]
             node == nodes[n]
             has_next == i + 1 <= Len(siblings)
             end == IF node.page_start = None THEN inherited_end
                    ELSE IF has_next
                            /\ nodes[siblings[i + 1]].page_start # None
                         THEN Max(node.page_start[1],
                                  nodes[siblings[i + 1]].page_start[1] - 1)
                         ELSE inherited_end
             set == [nodes EXCEPT ![n].page_end = Some(end)]
             down == IF node.children # <<>>
                     THEN assign_ends_same_bound(node.children, 1,
                                                 inherited_end, set)
                     ELSE set
         IN  assign_ends_same_bound(siblings, i + 1, inherited_end, down)

\* ocr/toc.py lines 142-158; i is the position of node in siblings
RECURSIVE assign_ends(_, _, _, _)
assign_ends(siblings, i, inherited_end, nodes) ==
    IF i > Len(siblings) THEN nodes
    ELSE LET n == siblings[i]
             node == nodes[n]
             has_next == i + 1 <= Len(siblings)
             end == IF node.page_start = None THEN inherited_end
                    ELSE IF has_next
                            /\ nodes[siblings[i + 1]].page_start # None
                         THEN Max(node.page_start[1],
                                  nodes[siblings[i + 1]].page_start[1] - 1)
                         ELSE inherited_end
             set == [nodes EXCEPT ![n].page_end = Some(end)]
             down == IF node.children # <<>>
                     THEN assign_ends(node.children, 1, end, set)
                     ELSE set
         IN  assign_ends(siblings, i + 1, inherited_end, down)

\* scripts/extract_toc.py lines 125-130
RECURSIVE script_start(_, _)
script_start(items, nodes) ==
    IF items = <<>> THEN nodes
    ELSE LET n == Head(items)
             ch == nodes[n].children
             below == IF ch # <<>> THEN script_start(ch, nodes) ELSE nodes
             filled == IF ch # <<>> /\ below[n].page_start = None
                       THEN [below EXCEPT
                               ![n].page_start = below[ch[1]].page_start]
                       ELSE below
         IN  script_start(Tail(items), filled)

\* A slip: >= for > at line 137, so a sibling starting on the same page
\* closes the node one page before its own start.
RECURSIVE script_end_geq(_, _, _, _)
script_end_geq(siblings, i, inherited_end, st) ==
    IF i > Len(siblings) \/ ~st.ok THEN st
    ELSE LET n == siblings[i]
             node == st.nodes[n]
             has_next == i + 1 <= Len(siblings)
             next_start == st.nodes[siblings[i + 1]].page_start
         IN  IF has_next /\ (next_start = None \/ node.page_start = None)
             THEN [st EXCEPT !.ok = FALSE]
             ELSE LET end == IF has_next
                             THEN IF next_start[1] >= node.page_start[1]
                                  THEN next_start[1] - 1
                                  ELSE node.page_start[1]
                             ELSE inherited_end
                      set == [st EXCEPT !.nodes[n].page_end = Some(end)]
                      down == IF node.children # <<>>
                              THEN script_end_geq(node.children, 1, end, set)
                              ELSE set
                  IN  script_end_geq(siblings, i + 1, inherited_end, down)

\* A slip: a node whose next sibling does not start later is closed at
\* the inherited bound instead of its own page_start (line 140).
RECURSIVE script_end_else_inherited(_, _, _, _)
script_end_else_inherited(siblings, i, inherited_end, st) ==
    IF i > Len(siblings) \/ ~st.ok THEN st
    ELSE LET n == siblings[i]
             node == st.nodes[n]
             has_next == i + 1 <= Len(siblings)
             next_start == st.nodes[siblings[i + 1]].page_start
         IN  IF has_next /\ (next_start = None \/ node.page_start = None)
             THEN [st EXCEPT !.ok = FALSE]
             ELSE LET end == IF has_next
                                /\ next_start[1] > node.page_start[1]
                             THEN next_start[1] - 1
                             ELSE inherited_end
                      set == [st EXCEPT !.nodes[n].page_end = Some(end)]
                      down == IF node.children # <<>>
                              THEN script_end_else_inherited(node.children, 1,
                                                             end, set)
                              ELSE set
                  IN  script_end_else_inherited(siblings, i + 1,
                                                inherited_end, down)

\* scripts/extract_toc.py lines 132-145.  st is [ok, nodes]: ok turns FALSE
\* when line 137 compares with a page_start that is None (TypeError), and
\* nodes then holds what had been written before the exception.
RECURSIVE script_end(_, _, _, _)
script_end(siblings, i, inherited_end, st) ==
    IF i > Len(siblings) \/ ~st.ok THEN st
    ELSE LET n == siblings[i]
             node == st.nodes[n]
             has_next == i + 1 <= Len(siblings)
             next_start == st.nodes[siblings[i + 1]].page_start
         IN  IF has_next /\ (next_start = None \/ node.page_start = None)
             THEN [st EXCEPT !.ok = FALSE]
             ELSE LET end == IF has_next
                             THEN IF next_start[1] > node.page_start[1]
                                  THEN next_start[1] - 1
                                  ELSE node.page_start[1]
                             ELSE inherited_end
                      set == [st EXCEPT !.nodes[n].page_end = Some(end)]
                      down == IF node.children # <<>>
                              THEN script_end(node.children, 1, end, set)
                              ELSE set
                  IN  script_end(siblings, i + 1, inherited_end, down)

\* the last_page arguments tried: below and above the page_start values
LastPages == {10, 30}

\* ocr/toc.py lines 124-161 (called at line 189)
ComputePageRanges ==
    /\ t_pc = "done"
    /\ \E last \in LastPages :
          /\ t_last' = Some(last)
          /\ t_nodes' = assign_ends(t_roots, 1, last,
                                    fill_missing_starts(t_roots, t_nodes))
    /\ t_pc' = "ranged"
    /\ UNCHANGED <<notToc, t_entries, t_i, t_stack, t_roots>>

\* scripts/extract_toc.py lines 123-148 (called at line 167)
ScriptComputePageRanges ==
    /\ t_pc = "done"
    /\ \E last \in LastPages :
          LET st == script_end(t_roots, 1, last,
                               [ok |-> TRUE,
                                nodes |-> script_start(t_roots, t_nodes)])
          IN  /\ t_last' = Some(last)
              /\ t_nodes' = st.nodes
              /\ t_pc' = IF st.ok THEN "script_ranged"
                         ELSE "script_TypeError"
    /\ UNCHANGED <<notToc, t_entries, t_i, t_stack, t_roots>>

TocNext ==
    \/ AttachRoot
    \/ AttachChild
    \/ ReturnRoots
    \/ ComputePageRanges
    \/ ScriptComputePageRanges

\* ---- claims about build_toc_tree
NodeIds == 1 .. Len(t_nodes)
ParentsOf(i) ==
    { j \in NodeIds : \E k \in 1 .. Len(t_nodes[j].children) :
                         t_nodes[j].children[k] = i }
\* the nearest entry before i with a strictly smaller level, 0 when none
SmallerBefore(i) ==
    { j \in 1 .. i - 1 : t_entries[j].level < t_entries[i].level }
NearestSmaller(i) ==
    IF SmallerBefore(i) = {} THEN 0
    ELSE CHOOSE j \in SmallerBefore(i) : \A m \in SmallerBefore(i) : m <= j
RECURSIVE PreOrder(_)
PreOrder(ids) ==
    IF ids = <<>> THEN <<>>
    ELSE <<Head(ids)>> \o PreOrder(t_nodes[Head(ids)].children)
                       \o PreOrder(Tail(ids))
LevelsAre(levels) ==
    /\ Len(t_entries) = Len(levels)
    /\ \A i \in 1 .. Len(levels) : t_entries[i].level = levels[i]

\* C10: the forest returned holds one node per entry with the entry's
\* fields, each node's parent is the nearest preceding entry of strictly
\* smaller level (a root when there is none), the pre-order traversal is the
\* input order, no entries give no roots, and levels 0,1,1,0 give two roots
\* with two and no children.
C10_ForestOfEntries ==
    t_pc = "done" =>
        /\ Len(t_nodes) = Len(t_entries)
        /\ \A i \in NodeIds :
              /\ t_nodes[i].title = t_entries[i].title
              /\ t_nodes[i].level = t_entries[i].level
              /\ t_nodes[i].page_start = t_entries[i].page_start
              /\ ParentsOf(i) = IF NearestSmaller(i) = 0 THEN {}
                                ELSE {NearestSmaller(i)}
              /\ (\E k \in 1 .. Len(t_roots) : t_roots[k] = i)
                    <=> NearestSmaller(i) = 0
        /\ PreOrder(t_roots) = [i \in 1 .. Len(t_entries) |-> i]
        /\ t_entries = <<>> => t_roots = <<>>
        /\ LevelsAre(<<0, 1, 1, 0>>) =>
              /\ Len(t_roots) = 2
              /\ Len(t_nodes[t_roots[1]].children) = 2
              /\ Len(t_nodes[t_roots[2]].children) = 0

C10_Witness ==
    /\ t_pc = "done"
    /\ LevelsAre(<<0, 1, 1, 0>>)
    /\ t_roots = <<1, 4>>
    /\ t_nodes[1].children = <<2, 3>>

\* the entries after entry i and before the next entry whose level is at
\* most the level of i
NextLeq(i) ==
    LET later == { j \in i + 1 .. Len(t_entries) :
                     t_entries[j].level <= t_entries[i].level }
    IN  IF later = {} THEN Len(t_entries) + 1
        ELSE CHOOSE j \in later : \A m \in later : j <= m
SpanOf(i) == i + 1 .. NextLeq(i) - 1
ChildrenOf(i) ==
    { t_nodes[i].children[k] : k \in 1 .. Len(t_nodes[i].children) }
DescendantsOf(i) ==
    LET below == PreOrder(t_nodes[i].children)
    IN  { below[k] : k \in 1 .. Len(below) }
\* j has no entry of a smaller level between i and itself
DirectlyUnder(i, j) ==
    \A m \in i + 1 .. j - 1 : t_entries[m].level >= t_entries[j].level

\* C11 as stated: in the forest returned, the children list of a node holds
\* exactly the entries after the node and before the next entry whose level
\* is at most the node's level.
C11_ChildrenAreSpan ==
    t_pc = "done" => \A i \in NodeIds : ChildrenOf(i) = SpanOf(i)

\* C11 amended: the descendants of a node (children, their children, and so
\* on) are exactly the entries after the node and before the next entry
\* whose level is at most the node's level; its children list holds, in
\* input order, those of them with no entry of a smaller level than their
\* own between the node and themselves.
C11_DescendantsAreSpan ==
    t_pc = "done" =>
        \A i \in NodeIds :
            /\ DescendantsOf(i) = SpanOf(i)
            /\ ChildrenOf(i) = { j \in SpanOf(i) : DirectlyUnder(i, j) }
            /\ \A k \in 1 .. Len(t_nodes[i].children) - 1 :
                  t_nodes[i].children[k] < t_nodes[i].children[k + 1]

C11_Witness ==
    /\ t_pc = "done"
    /\ LevelsAre(<<0, 1, 2, 1>>)
    /\ t_nodes[1].children = <<2, 4>>
    /\ t_nodes[2].children = <<3>>
    /\ DescendantsOf(1) = {2, 3, 4}

\* ---- claims about compute_page_ranges
Ranged == t_pc \in {"ranged", "script_ranged"}
RootStart(k) == t_entries[t_roots[k]].page_start
RootsKnownIncreasing ==
    /\ t_roots # <<>>
    /\ \A k \in 1 .. Len(t_roots) : RootStart(k) # None
    /\ \A k \in 1 .. Len(t_roots) - 1 : RootStart(k)[1] < RootStart(k + 1)[1]

KnownStarts ==
    { t_entries[i].page_start[1] :
        i \in { j \in 1 .. Len(t_entries) : t_entries[j].page_start # None } }
Resolved(i) == t_nodes[i].page_start # None /\ t_nodes[i].page_end # None

\* C13: after compute_page_ranges of ocr/toc.py on a forest built by
\* build_toc_tree, with last_page at least every page_start of the forest,
\* every node whose page_start and page_end are both resolved has
\* page_end >= page_start, at every depth.
C13_EndNotBeforeStart ==
    (t_pc = "ranged" /\ \A p \in KnownStarts : p <= t_last[1]) =>
        \A i \in NodeIds :
            Resolved(i) => t_nodes[i].page_end[1] >= t_nodes[i].page_start[1]

\* the sibling lists of the forest: the roots and every children list
SiblingLists == {t_roots} \cup { t_nodes[i].children : i \in NodeIds }
AdjacentSiblings ==
    { <<l[k], l[k + 1]>> : <<l, k>> \in
        { <<m, j>> \in SiblingLists \X (1 .. Len(t_entries)) : j < Len(m) } }
BothResolved(a, b) == Resolved(a) /\ t_nodes[b].page_start # None

\* C14 as stated: after either compute_page_ranges, every pair of adjacent
\* siblings (a, b) with resolved bounds has a.page_end + 1 = b.page_start.
C14_SiblingsContiguous ==
    Ranged =>
        \A ab \in AdjacentSiblings :
            BothResolved(ab[1], ab[2]) =>
                t_nodes[ab[1]].page_end[1] + 1 = t_nodes[ab[2]].page_start[1]

\* C14 amended: after either compute_page_ranges, every pair of adjacent
\* siblings (a, b) with resolved bounds and a.page_start < b.page_start has
\* a.page_end + 1 = b.page_start; when b.page_start <= a.page_start,
\* a.page_end is a.page_start, so a's one page is not before b's start.
C14_IncreasingSiblingsContiguous ==
    Ranged =>
        \A ab \in AdjacentSiblings :
            BothResolved(ab[1], ab[2]) =>
                LET a == t_nodes[ab[1]]
                    b == t_nodes[ab[2]]
                IN  IF a.page_start[1] < b.page_start[1]
                    THEN a.page_end[1] + 1 = b.page_start[1]
                    ELSE a.page_end = a.page_start

C14_Witness ==
    /\ t_pc = "script_ranged"
    /\ Len(t_roots) = 1
    /\ Len(t_nodes[1].children) = 3
    /\ t_nodes[2].page_start = Some(10) /\ t_nodes[2].page_end = Some(19)
    /\ t_nodes[3].page_start = Some(20) /\ t_nodes[3].page_end = Some(20)
    /\ t_nodes[4].page_start = Some(20)

\* the sibling after node i in its list, 0 when i is the last of it
NextSiblingOf(i) ==
    LET l == CHOOSE m \in SiblingLists : \E k \in 1 .. Len(m) : m[k] = i
        k == CHOOSE j \in 1 .. Len(l) : l[j] = i
    IN  IF k < Len(l) THEN l[k + 1] ELSE 0
\* the bound handed down to node i: its parent's page_end, last_page for a
\* root
InheritedOf(i) ==
    IF ParentsOf(i) = {} THEN t_last
    ELSE t_nodes[CHOOSE j \in ParentsOf(i) : TRUE].page_end
KnownStartOf(i) == t_nodes[i].page_start
NextNotAfter(i) ==
    /\ NextSiblingOf(i) # 0
    /\ KnownStartOf(i) # None
    /\ KnownStartOf(NextSiblingOf(i)) # None
    /\ KnownStartOf(NextSiblingOf(i))[1] <= KnownStartOf(i)[1]

AllStartsKnown ==
    \A i \in 1 .. Len(t_entries) : t_entries[i].page_start # None
\* the forest as build_toc_tree returned it, before the ranges were written
BuiltNodes ==
    [i \in NodeIds |->
        [t_nodes[i] EXCEPT !.page_start = t_entries[i].page_start,
                           !.page_end = None]]
RangesOcrToc(last) ==
    assign_ends(t_roots, 1, last, fill_missing_starts(t_roots, BuiltNodes))
RangesScript(last) ==
    script_end(t_roots, 1, last,
               [ok |-> TRUE, nodes |-> script_start(t_roots, BuiltNodes)])
\* the same nodes at the same places, field by field
SameForest(a, b) ==
    /\ DOMAIN a = DOMAIN b
    /\ \A i \in DOMAIN a :
          /\ a[i].title = b[i].title
          /\ a[i].level = b[i].level
          /\ a[i].children = b[i].children
          /\ a[i].page_start = b[i].page_start
          /\ a[i].page_end = b[i].page_end
RangesWritten == t_pc \in {"ranged", "script_ranged", "script_TypeError"}

\* C30: when every entry has a page_start, compute_page_ranges of
\* ocr/toc.py and of scripts/extract_toc.py leave the same forest for the
\* same last_page: the script raises nothing and every node has the same
\* title, level, children, page_start and page_end under both, whichever
\* of the two ran.
C30_ImplementationsAgree ==
    (RangesWritten /\ AllStartsKnown) =>
        /\ t_pc # "script_TypeError"
        /\ RangesScript(t_last[1]).ok
        /\ SameForest(RangesScript(t_last[1]).nodes, RangesOcrToc(t_last[1]))
        /\ SameForest(t_nodes, RangesOcrToc(t_last[1]))

C30_Witness ==
    /\ t_pc = "script_ranged"
    /\ AllStartsKnown
    /\ Len(t_entries) = MaxEntries
    /\ t_roots = <<1, 4>>
    /\ t_nodes[1].children = <<2, 3>>
    /\ t_entries[2].page_start = Some(20)
    /\ t_entries[3].page_start = Some(10)
    /\ t_nodes[2].page_end = Some(20)
    /\ SameForest(t_nodes, RangesOcrToc(t_last[1]))

\* C34: after compute_page_ranges of ocr/toc.py every child's resolved
\* range lies inside its parent's (its page_start is not before the
\* parent's, its page_end not after the parent's), the last child ends
\* where its parent ends, and no root ends after last_page.
C34_ChildRangeInsideParent ==
    t_pc = "ranged" =>
        /\ \A p \in NodeIds : \A n \in 1 .. Len(t_nodes[p].children) :
              LET c == t_nodes[p].children[n]
              IN  /\ (t_nodes[c].page_start # None
                      /\ t_nodes[p].page_start # None)
                        => t_nodes[c].page_start[1] >= t_nodes[p].page_start[1]
                  /\ t_nodes[c].page_end[1] <= t_nodes[p].page_end[1]
                  /\ n = Len(t_nodes[p].children)
                        => t_nodes[c].page_end = t_nodes[p].page_end
        /\ \A k \in 1 .. Len(t_roots) :
              t_nodes[t_roots[k]].page_end[1] <= t_last[1]

(***************************************************************************)
(* utils/normalize.py                                                      *)
(*                                                                         *)
(* A Python str is the sequence of its characters; a character is a        *)
(* one-character string, and a character outside printable ASCII is named *)
(* by its code point ("U+2026").  The regex classes are given on the       *)
(* characters the inputs below are made of.                                *)
(***************************************************************************)
LOWER ==
    <<"a", "b", "c", "d", "e", "f", "g", "h", "i", "j", "k", "l",
      "m", "n", "o", "p", "q", "r", "s", "t", "u", "v", "w", "x",
      "y", "z">>
UPPER ==
    <<"A", "B", "C", "D", "E", "F", "G", "H", "I", "J", "K", "L",
      "M", "N", "O", "P", "Q", "R", "S", "T", "U", "V", "W", "X",
      "Y", "Z">>
Letters == { LOWER[k] : k \in 1 .. 26 } \cup { UPPER[k] : k \in 1 .. 26 }
Digits == {"0", "1", "2", "3", "4", "5", "6", "7", "8", "9"}
\* \w and \s of the re module on str
WordChars == Letters \cup Digits \cup {"_"}
SpaceChars == {" ", "\t", "\n", "\r", "U+000B", "U+000C"}
\* line 5, CONTROL_CHARS_RE: BEL, VT, FF, ESC and DEL stand for the class
ControlChars == {"U+0007", "U+000B", "U+000C", "U+001B", "U+007F"}
\* line 9, BULLET_RE
BulletChars == {"U+2022", "U+25E6", "U+2219", "U+00B7", "U+2023", "U+25AA",
                "U+25AB", "U+2013", "U+2014"}

IsWord(c) == c \in WordChars
IsSpace(c) == c \in SpaceChars
WordAt(s, q) == q \in 1 .. Len(s) /\ IsWord(s[q])
\* \b at the gap before position p
Boundary(s, p) == WordAt(s, p - 1) # WordAt(s, p)
MatchAt(s, i, pat) ==
    /\ i + Len(pat) - 1 <= Len(s)
    /\ \A k \in 1 .. Len(pat) : s[i + k - 1] = pat[k]

\* str.lower
str_lower(s) ==
    [i \in 1 .. Len(s) |->
        IF \E k \in 1 .. 26 : UPPER[k] = s[i]
        THEN LOWER[CHOOSE k \in 1 .. 26 : UPPER[k] = s[i]]
        ELSE s[i]]

\* str.strip
RECURSIVE str_lstrip(_)
str_lstrip(s) ==
    IF s # <<>> /\ IsSpace(Head(s)) THEN str_lstrip(Tail(s)) ELSE s
RECURSIVE str_rstrip(_)
str_rstrip(s) ==
    IF s # <<>> /\ IsSpace(s[Len(s)])
    THEN str_rstrip(SubSeq(s, 1, Len(s) - 1)) ELSE s
str_strip(s) == str_rstrip(str_lstrip(s))

\* re.sub(r"\b<pat>\b", rep, s) from position i on, for a literal pat
RECURSIVE sub_bounded(_, _, _, _)
sub_bounded(s, i, pat, rep) ==
    IF i > Len(s) THEN <<>>
    ELSE IF MatchAt(s, i, pat) /\ Boundary(s, i)
            /\ Boundary(s, i + Len(pat))
         THEN rep \o sub_bounded(s, i + Len(pat), pat, rep)
         ELSE <<s[i]>> \o sub_bounded(s, i + 1, pat, rep)

\* re.sub(r"[^\w\s]", "", s)
KeptInTitle(c) == IsWord(c) \/ IsSpace(c)
strip_punctuation(s) == SelectSeq(s, KeptInTitle)

\* re.sub(r"\s+", " ", s) from position i on
RECURSIVE collapse_spaces(_, _)
collapse_spaces(s, i) ==
    IF i > Len(s) THEN <<>>
    ELSE IF IsSpace(s[i])
         THEN (IF i > 1 /\ IsSpace(s[i - 1]) THEN <<>> ELSE <<" ">>)
              \o collapse_spaces(s, i + 1)
         ELSE <<s[i]>> \o collapse_spaces(s, i + 1)

\* A slip: the chapter variants of lines 88-89 are left alone.
normalize_title_no_synonyms(text) ==
    str_strip(collapse_spaces(strip_punctuation(str_lower(text)), 1))

\* lines 81-97
normalize_title(text) ==
    LET lowered == str_lower(text)
        ch1 == sub_bounded(lowered, 1, <<"c", "h", "a", "p", "t", "e", "r">>,
                           <<"c", "h">>)
        ch2 == sub_bounded(ch1, 1, <<"c", "h", ".">>, <<"c", "h">>)
    IN  str_strip(collapse_spaces(strip_punctuation(ch2), 1))

\* lines 15-16
NotControl(c) == c \notin ControlChars
remove_control_chars(text) == SelectSeq(text, NotControl)

\* unicodedata.normalize("NFKC", c) of one character: the ellipsis, the
\* acute accent and the no-break space decompose, the rest is unchanged
NFKC(c) ==
    CASE c = "U+2026" -> <<".", ".", ".">>
      [] c = "U+00B4" -> <<" ", "U+0301">>
      [] c = "U+00A0" -> <<" ">>
      [] OTHER -> <<c>>
\* lines 24-36, the replacements table applied to one character
Replacement(c) ==
    CASE c \in {"U+201C", "U+201D"} -> <<"\"">>
      [] c \in {"U+2018", "U+2019", "U+00B4"} -> <<"'">>
      [] c \in {"U+2013", "U+2014"} -> <<"-">>
      [] c = "U+2026" -> <<".", ".", ".">>
      [] OTHER -> <<c>>
RECURSIVE unicode_nfkc(_)
unicode_nfkc(text) ==
    IF text = <<>> THEN <<>>
    ELSE NFKC(Head(text)) \o unicode_nfkc(Tail(text))
RECURSIVE replace_all(_)
replace_all(text) ==
    IF text = <<>> THEN <<>>
    ELSE Replacement(Head(text)) \o replace_all(Tail(text))
\* lines 18-38
normalize_unicode(text) == replace_all(unicode_nfkc(text))

\* lines 40-44
normalize_bullets(text) ==
    [i \in 1 .. Len(text) |->
        IF text[i] \in BulletChars THEN "-" ELSE text[i]]

\* the last position of the run of characters of class cls that starts at
\* position i (i - 1 when the run is empty)
RECURSIVE RunEnd(_, _, _)
RunEnd(s, i, cls) ==
    IF i <= Len(s) /\ s[i] \in cls THEN RunEnd(s, i + 1, cls) ELSE i - 1

\* line 54, one HYPHEN_LINEBREAK_RE.sub(r"\1\2", text) from position i on:
\* (\w+)-\s+([a-z]) matched leftmost, the scan resuming after each match
RECURSIVE hyphen_sub(_, _)
hyphen_sub(s, i) ==
    IF i > Len(s) THEN <<>>
    ELSE LET j == RunEnd(s, i, WordChars)
             k == RunEnd(s, j + 2, SpaceChars)
             lower_case == { LOWER[n] : n \in 1 .. 26 }
         IN  IF /\ j >= i
                /\ j + 1 <= Len(s) /\ s[j + 1] = "-"
                /\ k >= j + 2
                /\ k + 1 <= Len(s) /\ s[k + 1] \in lower_case
             THEN SubSeq(s, i, j) \o <<s[k + 1]>> \o hyphen_sub(s, k + 2)
             ELSE <<s[i]>> \o hyphen_sub(s, i + 1)

\* lines 46-58
RECURSIVE fix_hyphenated_linebreaks(_)
fix_hyphenated_linebreaks(text) ==
    LET new_text == hyphen_sub(text, 1)
    IN  IF new_text = text THEN text
        ELSE fix_hyphenated_linebreaks(new_text)

\* MULTI_SPACE_RE.sub(" ", s) and MULTI_NEWLINE_RE.sub("\n\n", s) from
\* position i on: a run of at least min characters of cls becomes rep
RECURSIVE squeeze_runs(_, _, _, _, _)
squeeze_runs(s, i, cls, min, rep) ==
    IF i > Len(s) THEN <<>>
    ELSE LET j == RunEnd(s, i, cls)
         IN  IF j - i + 1 >= min
             THEN rep \o squeeze_runs(s, j + 1, cls, min, rep)
             ELSE <<s[i]>> \o squeeze_runs(s, i + 1, cls, min, rep)

\* lines 60-66
normalize_whitespace(text) ==
    LET spaced == squeeze_runs(text, 1, {" ", "\t"}, 2, <<" ">>)
        lined == squeeze_runs(spaced, 1, {"\n"}, 3, <<"\n", "\n">>)
    IN  str_strip(lined)

\* lines 69-79
normalize_text(text) ==
    IF text = <<>> THEN text
    ELSE normalize_whitespace(
             fix_hyphenated_linebreaks(
                 normalize_bullets(
                     normalize_unicode(remove_control_chars(text)))))

(***************************************************************************)
(* blocks/serialize.py: flatten_toc, titles_match, align_blocks_to_toc     *)
(*                                                                         *)
(* A TOC forest is [roots, nodes]: nodes holds the node dicts and a        *)
(* reference to a node is its position there, as in build_toc_tree.        *)
(* A call that raises is [raised |-> TRUE, ...].                           *)
(***************************************************************************)
\* lines 9-28, for the node list ids of the forest nodes
RECURSIVE flatten_toc(_, _)
flatten_toc(ids, nodes) ==
    IF ids = <<>> THEN <<>>
    ELSE LET node == nodes[Head(ids)]
         IN  <<[title |-> node.title, level |-> node.level]>>
             \o (IF node.children # <<>>
                 THEN flatten_toc(node.children, nodes) ELSE <<>>)
             \o flatten_toc(Tail(ids), nodes)

\* lines 30-37.  Line 34 lowers the text; line 35 then looks up the global
\* name re, which serialize.py never binds (its imports are lines 1-6:
\* pathlib, typing, json, normalize_text, Block), so the call raises
\* NameError before any substitution is made.
serialize_normalize_title(text) ==
    LET lowered == str_lower(text)
    IN  [raised |-> TRUE, value |-> lowered]

\* Python's a in b on str
IsSubstring(a, b) ==
    \E i \in 0 .. Len(b) - Len(a) : SubSeq(b, i + 1, i + Len(a)) = a

\* lines 39-46
titles_match(block_title, toc_title) ==
    LET bt == serialize_normalize_title(block_title)
        tt == serialize_normalize_title(toc_title)
    IN  IF bt.raised \/ tt.raised
        THEN [raised |-> TRUE, value |-> FALSE]
        ELSE [raised |-> FALSE,
              value |-> \/ bt.value = tt.value
                        \/ IsSubstring(bt.value, tt.value)
                        \/ IsSubstring(tt.value, bt.value)]

\* lines 65-66 and 73: the position in toc_entries of the first entry, from
\* position k on, that titles_match accepts; 0 when the loop runs out
RECURSIVE first_match(_, _, _)
first_match(title, toc_entries, k) ==
    IF k > Len(toc_entries) THEN [raised |-> FALSE, found |-> 0]
    ELSE LET m == titles_match(title, toc_entries[k].title)
         IN  IF m.raised THEN [raised |-> TRUE, found |-> 0]
             ELSE IF m.value THEN [raised |-> FALSE, found |-> k]
             ELSE first_match(title, toc_entries, k + 1)

\* line 64: truthiness of block.get("title")
TruthyStr(opt) == opt # None /\ opt[1] # <<>>

\* lines 68-72
truncate_and_set(current_path, level, toc_title) ==
    [k \in { j \in DOMAIN current_path : j < level } \cup {level} |->
        IF k = level THEN toc_title ELSE current_path[k]]

\* lines 76-79: the values of current_path by increasing key
RECURSIVE section_path_of(_)
section_path_of(current_path) ==
    IF DOMAIN current_path = {} THEN <<>>
    ELSE LET least == CHOOSE k \in DOMAIN current_path :
                          \A j \in DOMAIN current_path : k <= j
         IN  <<current_path[least]>>
             \o section_path_of(
                    [k \in DOMAIN current_path \ {least} |-> current_path[k]])

\* line 58: the empty dict
EmptyDict == [k \in {} |-> <<>>]

\* ---- inputs: titles, TOC forests and block lists
S_CHAPTER3 ==
    <<"C", "h", "a", "p", "t", "e", "r", " ", "3", ":", " ", "T", "h",
      "e", " ", "G", "r", "e", "a", "t", " ", "W", "a", "r">>
S_CH3 ==
    <<"C", "h", ".", " ", "3", " ", "T", "h", "e", " ", "G", "r", "e",
      "a", "t", " ", "W", "a", "r">>
S_INTRO == <<"I", "n", "t", "r", "o">>
S_RULES == <<"R", "u", "l", "e", "s">>
S_COMBAT == <<"C", "o", "m", "b", "a", "t">>
S_BANGS == <<"!", "!">>
S_EMPTY == <<>>
TocNode(title, level, children) ==
    [title |-> title, level |-> level, children |-> children]
TOC_EMPTY == [roots |-> <<>>, nodes |-> <<>>]
TOC_WAR == [roots |-> <<1>>, nodes |-> <<TocNode(S_CH3, 0, <<>>)>>]
TOC_BOOK ==
    [roots |-> <<1, 3>>,
     nodes |-> <<TocNode(S_INTRO, 0, <<2>>), TocNode(S_CH3, 1, <<>>),
                 TocNode(S_RULES, 0, <<4>>), TocNode(S_COMBAT, 1, <<>>)>>]
AlignTocs == {TOC_EMPTY, TOC_WAR, TOC_BOOK}
\* block.get("title"): no title key or None, "", or a title
AlignTitles == {None, Some(S_EMPTY), Some(S_BANGS), Some(S_INTRO),
                Some(S_COMBAT), Some(S_CHAPTER3)}
MaxBlocks == 3      \* longest block list
AlignBlock(k, title) ==
    [block_id |-> BlockId("blk", 0, k - 1), title |-> title]
AlignBlockLists(n) ==
    { [k \in 1 .. n |-> AlignBlock(k, ts[k])] : ts \in [1 .. n -> AlignTitles] }

AlIdle ==
    /\ al_blocks = <<>>
    /\ al_toc = TOC_EMPTY
    /\ al_pc = "idle"
    /\ al_i = 0
    /\ al_current_path = EmptyDict
    /\ al_block_to_path = EmptyDict

\* lines 56-59
AlInit ==
    /\ \E n \in 0 .. MaxBlocks : al_blocks \in AlignBlockLists(n)
    /\ al_toc \in AlignTocs
    /\ al_pc = "loop"
    /\ al_i = 0
    /\ al_current_path = EmptyDict
    /\ al_block_to_path = EmptyDict

toc_entries == flatten_toc(al_toc.roots, al_toc.nodes)

\* lines 61-81, one iteration of the loop over blocks
AlignStep ==
    /\ al_pc = "loop"
    /\ al_i < Len(al_blocks)
    /\ LET block == al_blocks[al_i + 1]
           title == block.title
           hit == IF TruthyStr(title)
                  THEN first_match(title[1], toc_entries, 1)
                  ELSE [raised |-> FALSE, found |-> 0]
           path == IF hit.found > 0
                   THEN truncate_and_set(al_current_path,
                                         toc_entries[hit.found].level,
                                         toc_entries[hit.found].title)
                   ELSE al_current_path
       IN  IF hit.raised
           THEN /\ al_pc' = "NameError"
                /\ UNCHANGED <<al_i, al_current_path, al_block_to_path>>
           ELSE /\ al_current_path' = path
                /\ al_block_to_path' =
                      [b \in DOMAIN al_block_to_path \cup {block.block_id} |->
                          IF b = block.block_id THEN section_path_of(path)
                          ELSE al_block_to_path[b]]
                /\ al_i' = al_i + 1
                /\ al_pc' = al_pc
    /\ UNCHANGED <<notAl, al_blocks, al_toc>>

\* line 83
AlignReturn ==
    /\ al_pc = "loop"
    /\ al_i = Len(al_blocks)
    /\ al_pc' = "done"
    /\ UNCHANGED <<notAl, al_blocks, al_toc, al_i, al_current_path,
                   al_block_to_path>>

AlignNext ==
    \/ AlignStep
    \/ AlignReturn

\* ---- claims about align_blocks_to_toc
\* the blocks whose loop iteration has begun
ReachedBlocks == 1 .. (al_i + IF al_pc = "NameError" THEN 1 ELSE 0)
HasPath(k) == al_blocks[k].block_id \in DOMAIN al_block_to_path
PathOf(k) == al_block_to_path[al_blocks[k].block_id]
\* the TOC entries whose normalized title is the normalized title of block k
NormEqualEntries(k) ==
    { e \in 1 .. Len(toc_entries) :
        /\ TruthyStr(al_blocks[k].title)
        /\ normalize_title(al_blocks[k].title[1]) # <<>>
        /\ normalize_title(al_blocks[k].title[1])
              = normalize_title(toc_entries[e].title) }
FirstOf(S) == CHOOSE e \in S : \A f \in S : e <= f
\* the entry matched most recently at or before block k, 0 when none
LastMatchedEntry(k) ==
    LET hits == { j \in 1 .. k : NormEqualEntries(j) # {} }
    IN  IF hits = {} THEN 0
        ELSE FirstOf(NormEqualEntries(
                 CHOOSE j \in hits : \A m \in hits : m <= j))
\* path names a chain of the forest that starts at one of the nodes ids
RECURSIVE ChainFrom(_, _)
ChainFrom(ids, path) ==
    \/ path = <<>>
    \/ \E n \in 1 .. Len(ids) :
          /\ al_toc.nodes[ids[n]].title = Head(path)
          /\ ChainFrom(al_toc.nodes[ids[n]].children, Tail(path))

\* C15: every block the call reaches is assigned a path that is a chain of
\* the TOC forest from a root downwards (each element the title of a child
\* of the node named before it) and whose last element is the TOC entry
\* matched most recently, for every block sequence.
C15_PathsAreChains ==
    \A k \in ReachedBlocks :
        /\ HasPath(k)
        /\ ChainFrom(al_toc.roots, PathOf(k))
        /\ LastMatchedEntry(k) # 0 =>
              /\ PathOf(k) # <<>>
              /\ PathOf(k)[Len(PathOf(k))]
                    = toc_entries[LastMatchedEntry(k)].title

\* C16: every input block is assigned a path, and a block with no title,
\* with a title that normalizes to the empty string, or whose normalized
\* title equals no normalized TOC title gets exactly the path of the block
\* before it (the empty path if it is the first).
C16_PathChangesOnlyAtMatch ==
    /\ \A k \in ReachedBlocks :
          /\ HasPath(k)
          /\ NormEqualEntries(k) = {} =>
                PathOf(k) = IF k = 1 THEN <<>> ELSE PathOf(k - 1)
    /\ al_pc = "done" => \A k \in 1 .. Len(al_blocks) : HasPath(k)

\* C17: whenever normalize_title of utils/normalize.py gives the same
\* string for a block's title and for a TOC title, the block is matched to
\* that TOC entry: its path ends with the entry's title; the block titled
\* "Chapter 3: The Great War" matches the TOC title "Ch. 3 The Great War".
C17_LookupUsesNormalizeTitle ==
    \A k \in ReachedBlocks :
        /\ NormEqualEntries(k) # {} =>
              /\ HasPath(k)
              /\ PathOf(k) # <<>>
              /\ PathOf(k)[Len(PathOf(k))]
                    \in { toc_entries[e].title : e \in NormEqualEntries(k) }
        /\ (al_blocks[k].title = Some(S_CHAPTER3) /\ al_toc = TOC_WAR) =>
              (HasPath(k) /\ PathOf(k) = <<S_CH3>>)

(***************************************************************************)
(* blocks/serialize.py: block_to_dict, serialize_blocks                    *)
(*                                                                         *)
(* A dict with optional keys is a function whose domain is the keys set.   *)
(***************************************************************************)
\* lines 86-109; section_path is None or a list
block_to_dict(block, section_path) ==
    [block_id |-> block.block_id, page |-> block.page, type |-> block.type,
     section_path |-> IF section_path = None THEN <<>> ELSE section_path[1]]
    @@ (IF TruthyStr(block.title) THEN [title |-> block.title[1]]
        ELSE EmptyDict)
    @@ (IF block.type = "text"
        THEN [text |-> normalize_text(IF TruthyStr(block.text)
                                      THEN block.text[1] ELSE <<>>)]
        ELSE EmptyDict)
    @@ (IF block.type = "table" THEN [image |-> block.image_crop]
        ELSE EmptyDict)

\* ---- inputs: Block objects as assemble_page makes them
S_BODY == <<"a", " ", " ", "b">>
S_MORE == <<"c", "i", "t", "-", " ", "i", "e", "s", " ">>
SerTitles == {None, Some(S_INTRO)}
SerTexts == {S_BODY, S_MORE}
\* what a block is apart from its position: type, title and text
SerKinds ==
    { [type |-> "text", title |-> t, text |-> Some(x)] :
        t \in SerTitles, x \in SerTexts }
    \cup { [type |-> "table", title |-> t, text |-> None] : t \in SerTitles }
SerBlock(k, kind) ==
    LET prefix == IF kind.type = "text" THEN "blk" ELSE "tbl"
    IN  [block_id |-> BlockId(prefix, 0, k - 1), order_id |-> k - 1,
         page |-> 1, type |-> kind.type, text |-> kind.text,
         title |-> kind.title,
         image_crop |-> IF kind.type = "table"
                        THEN Some(CROP_DIR \o "/" \o BlockId("tbl", 0, k - 1)
                                  \o ".png")
                        ELSE None]
SerBlockLists(n) ==
    { [k \in 1 .. n |-> SerBlock(k, ks[k])] : ks \in [1 .. n -> SerKinds] }
\* toc: None (the default) or a forest
SerTocs == {None, Some(TOC_EMPTY), Some(TOC_BOOK)}

SbIdle ==
    /\ sb_blocks = <<>>
    /\ sb_toc = None
    /\ sb_pc = "idle"
    /\ sb_i = 0
    /\ sb_text_blocks = <<>>
    /\ sb_table_blocks = <<>>
    /\ sb_made = FALSE

SbInit ==
    /\ \E n \in 0 .. MaxBlocks : sb_blocks \in SerBlockLists(n)
    /\ sb_toc \in SerTocs
    /\ sb_pc = "start"
    /\ sb_i = 0
    /\ sb_text_blocks = <<>>
    /\ sb_table_blocks = <<>>
    /\ sb_made = FALSE

\* lines 120-127.  align_blocks_to_toc reads block.get("title") at its
\* line 62; a Block (assemble.py lines 10-18) is a dataclass and has no
\* get, so the call raises AttributeError at its first block; on no blocks
\* it returns the empty dict.
SerializeBegin ==
    /\ sb_pc = "start"
    /\ sb_made' = TRUE
    /\ sb_pc' = IF sb_toc # None /\ sb_blocks # <<>> THEN "AttributeError"
                ELSE "loop"
    /\ UNCHANGED <<notSb, sb_blocks, sb_toc, sb_i, sb_text_blocks,
                   sb_table_blocks>>

\* lines 129-142, one iteration.  section_paths is None or, reached only
\* with toc given and no blocks, the empty dict: the loop body then never
\* runs, so section_path is None here.
SerializeCollect ==
    /\ sb_pc = "loop"
    /\ sb_i < Len(sb_blocks)
    /\ LET block == sb_blocks[sb_i + 1]
           data == block_to_dict(block, None)
       IN  /\ sb_text_blocks' = IF block.type = "text"
                                THEN Append(sb_text_blocks, data)
                                ELSE sb_text_blocks
           /\ sb_table_blocks' = IF block.type = "table"
                                 THEN Append(sb_table_blocks, data)
                                 ELSE sb_table_blocks
    /\ sb_i' = sb_i + 1
    /\ UNCHANGED <<notSb, sb_blocks, sb_toc, sb_pc, sb_made>>

\* line 145: out_dir is no parameter, local or global of the function (the
\* parameter is out_path), so blocks_path is never computed and neither
\* file is written: NameError.
SerializeWrite ==
    /\ sb_pc = "loop"
    /\ sb_i = Len(sb_blocks)
    /\ sb_pc' = "NameError"
    /\ UNCHANGED <<notSb, sb_blocks, sb_toc, sb_i, sb_text_blocks,
                   sb_table_blocks, sb_made>>

SerializeNext ==
    \/ SerializeBegin
    \/ SerializeCollect
    \/ SerializeWrite

\* ---- claims about serialize_blocks
IsTitledText(b) == b.type = "text" /\ TruthyStr(b.title)
IsUntitledText(b) == b.type = "text" /\ ~TruthyStr(b.title)
\* the nearest titled text block before block j, 0 when none
TitledBefore(j) ==
    LET before == { p \in 1 .. j - 1 : IsTitledText(sb_blocks[p]) }
    IN  IF before = {} THEN 0
        ELSE CHOOSE p \in before : \A q \in before : q <= p
OutputsOf(out, j) ==
    { n \in 1 .. Len(out) : out[n].block_id = sb_blocks[j].block_id }

\* C18: in what serialize_blocks collects for output, an untitled text
\* Block that follows a titled text Block is no entry of its own, its text
\* being part of the text of the nearest preceding titled text Block's
\* entry; every table Block is exactly one entry of the tables.
C18_UntitledTextMerged ==
    \A j \in 1 .. sb_i :
        /\ (IsUntitledText(sb_blocks[j]) /\ TitledBefore(j) # 0) =>
              /\ OutputsOf(sb_text_blocks, j) = {}
              /\ \A n \in OutputsOf(sb_text_blocks, TitledBefore(j)) :
                    IsSubstring(normalize_text(sb_blocks[j].text[1]),
                                sb_text_blocks[n].text)
        /\ sb_blocks[j].type = "table" =>
              Cardinality(OutputsOf(sb_table_blocks, j)) = 1

(***************************************************************************)
(* blocks/sections.py: split_into_sections                                 *)
(***************************************************************************)
\* lines 8-9
HEADING_DECORATOR_PREFIX ==
    <<"<", "<", "<", "H", "E", "A", "D", "I", "N", "G", ":">>
HEADING_DECORATOR_SUFFIX == <<">", ">", ">">>
PARAGRAPH_BREAK == <<"\n", "\n">>

\* f"{section_index:06d}"
Pad6(n) == IF n < 10 THEN "0" \o Pad5(n) ELSE Pad5(n)

\* line 20
stripped_text(block) == str_strip(block.text)
\* line 28; None when toc is empty
toc_leaf(block) ==
    IF block.toc # <<>> THEN Some(block.toc[Len(block.toc)]) ELSE None
\* lines 31-35, as the truth value the ifs of lines 38 and 67 see
is_heading(block) ==
    /\ TruthyStr(block.title)
    /\ TruthyStr(toc_leaf(block))
    /\ normalize_title(block.title[1]) # normalize_title(toc_leaf(block)[1])
\* lines 38-42
section_text(block) ==
    IF is_heading(block)
    THEN HEADING_DECORATOR_PREFIX \o <<" ">> \o block.title[1] \o <<" ">>
         \o HEADING_DECORATOR_SUFFIX \o PARAGRAPH_BREAK
         \o stripped_text(block)
    ELSE stripped_text(block)

\* A slip: only the deepest TOC title is compared.
path_changed_leaf(current, toc) ==
    IF current = None THEN TRUE
    ELSE IF current[1].toc = <<>> \/ toc = <<>>
         THEN current[1].toc # toc
         ELSE current[1].toc[Len(current[1].toc)] # toc[Len(toc)]

\* line 45
path_changed(current, toc) ==
    IF current = None THEN TRUE ELSE current[1].toc # toc

\* lines 67-69 applied to the section cur
track_heading(cur, block) ==
    IF is_heading(block)
       /\ (cur.headings = <<>>
           \/ cur.headings[Len(cur.headings)] # block.title[1])
    THEN [cur EXCEPT !.headings = Append(@, block.title[1])]
    ELSE cur

\* ---- inputs: text block dicts
S_BLANK == <<" ">>
SecTocs == {<<>>, <<S_INTRO, S_COMBAT>>, <<S_RULES, S_COMBAT>>}
SecTexts == {S_BODY, S_BLANK}
SecTitles == {None, Some(S_INTRO)}
SecPages == {1, 2}
SecKinds == [toc : SecTocs, text : SecTexts, title : SecTitles,
             page : SecPages]
SecBlock(k, kind) ==
    [block_id |-> BlockId("blk", 0, k - 1), toc |-> kind.toc,
     text |-> kind.text, title |-> kind.title, page |-> kind.page]
SecBlockLists(n) ==
    { [k \in 1 .. n |-> SecBlock(k, ks[k])] : ks \in [1 .. n -> SecKinds] }

SecIdle ==
    /\ sec_blocks = <<>>
    /\ sec_pc = "idle"
    /\ sec_i = 0
    /\ sec_sections = <<>>
    /\ sec_current = None
    /\ sec_index = 0
    /\ sec_file = None

\* lines 13-16
SecInit ==
    /\ \E n \in 0 .. MaxBlocks : sec_blocks \in SecBlockLists(n)
    /\ sec_pc = "loop"
    /\ sec_i = 0
    /\ sec_sections = <<>>
    /\ sec_current = None
    /\ sec_index = 0
    /\ sec_file = None

sec_block == sec_blocks[sec_i + 1]

\* lines 18-26: a block whose stripped text is empty is passed over
SectionSkip ==
    /\ sec_pc = "loop"
    /\ sec_i < Len(sec_blocks)
    /\ stripped_text(sec_block) = <<>>
    /\ sec_i' = sec_i + 1
    /\ UNCHANGED <<notSec, sec_blocks, sec_pc, sec_sections, sec_current,
                   sec_index, sec_file>>

\* lines 18-57 and 66-69: the block starts a new section
SectionOpen ==
    /\ sec_pc = "loop"
    /\ sec_i < Len(sec_blocks)
    /\ stripped_text(sec_block) # <<>>
    /\ path_changed(sec_current, sec_block.toc)
    /\ sec_sections' = IF sec_current # None
                       THEN Append(sec_sections, sec_current[1])
                       ELSE sec_sections
    /\ sec_current' =
          Some(track_heading(
                   [section_id |-> "sec_" \o Pad6(sec_index),
                    toc |-> sec_block.toc,
                    headings |-> <<>>,
                    text |-> section_text(sec_block),
                    pages |-> <<sec_block.page>>,
                    block_ids |-> <<sec_block.block_id>>],
                   sec_block))
    /\ sec_index' = sec_index + 1
    /\ sec_i' = sec_i + 1
    /\ UNCHANGED <<notSec, sec_blocks, sec_pc, sec_file>>

\* A slip: the page is appended without the test of line 63.
SectionExtendAnyPage ==
    /\ sec_pc = "loop"
    /\ sec_i < Len(sec_blocks)
    /\ stripped_text(sec_block) # <<>>
    /\ ~path_changed(sec_current, sec_block.toc)
    /\ LET cur == sec_current[1]
           extended ==
               [cur EXCEPT
                  !.text = @ \o PARAGRAPH_BREAK \o section_text(sec_block),
                  !.block_ids = Append(@, sec_block.block_id),
                  !.pages = Append(@, sec_block.page)]
       IN  sec_current' = Some(track_heading(extended, sec_block))
    /\ sec_i' = sec_i + 1
    /\ UNCHANGED <<notSec, sec_blocks, sec_pc, sec_sections, sec_index,
                   sec_file>>

\* lines 18-43 and 58-69: the block extends the current section
SectionExtend ==
    /\ sec_pc = "loop"
    /\ sec_i < Len(sec_blocks)
    /\ stripped_text(sec_block) # <<>>
    /\ ~path_changed(sec_current, sec_block.toc)
    /\ LET cur == sec_current[1]
           seen == \E n \in 1 .. Len(cur.pages) :
                       cur.pages[n] = sec_block.page
           extended ==
               [cur EXCEPT
                  !.text = @ \o PARAGRAPH_BREAK \o section_text(sec_block),
                  !.block_ids = Append(@, sec_block.block_id),
                  !.pages = IF seen THEN @ ELSE Append(@, sec_block.page)]
       IN  sec_current' = Some(track_heading(extended, sec_block))
    /\ sec_i' = sec_i + 1
    /\ UNCHANGED <<notSec, sec_blocks, sec_pc, sec_sections, sec_index,
                   sec_file>>

\* lines 71-77
SectionsReturn ==
    /\ sec_pc = "loop"
    /\ sec_i = Len(sec_blocks)
    /\ sec_sections' = IF sec_current # None
                       THEN Append(sec_sections, sec_current[1])
                       ELSE sec_sections
    /\ sec_file' = Some(sec_sections')
    /\ sec_pc' = "done"
    /\ UNCHANGED <<notSec, sec_blocks, sec_i, sec_current, sec_index>>

SectionsNext ==
    \/ SectionSkip
    \/ SectionOpen
    \/ SectionExtend
    \/ SectionsReturn

\* ---- claims about split_into_sections
NonEmptyText(k) == stripped_text(sec_blocks[k]) # <<>>
\* the nearest block before k with non-empty text, 0 when none
PrevNonEmpty(k) ==
    LET before == { j \in 1 .. k - 1 : NonEmptyText(j) }
    IN  IF before = {} THEN 0
        ELSE CHOOSE j \in before : \A m \in before : m <= j
\* block k begins a maximal run of non-empty blocks sharing one TOC path
RunStart(k) ==
    /\ NonEmptyText(k)
    /\ (PrevNonEmpty(k) = 0
        \/ sec_blocks[PrevNonEmpty(k)].toc # sec_blocks[k].toc)
RunStartsUpTo(i) == { k \in 1 .. i : RunStart(k) }
\* the number of the run block k belongs to
RunOf(k) == Cardinality(RunStartsUpTo(k))
\* the block_ids of run m among the blocks from position k on
RECURSIVE RunIds(_, _)
RunIds(k, m) ==
    IF k > Len(sec_blocks) THEN <<>>
    ELSE (IF NonEmptyText(k) /\ RunOf(k) = m
          THEN <<sec_blocks[k].block_id>> ELSE <<>>)
         \o RunIds(k + 1, m)

\* C19: a Section is opened exactly at a block with non-empty text whose
\* TOC path differs from the open Section's (or when none is open), the
\* open Section is closed at that moment or at the end of the input, every
\* maximal run of consecutive non-empty text blocks sharing one TOC path
\* is exactly one Section, and no two adjacent Sections returned have the
\* same toc.
C19_SectionsAreRuns ==
    /\ sec_index = Cardinality(RunStartsUpTo(sec_i))
    /\ sec_pc = "loop" =>
          /\ (sec_current = None) <=> (sec_index = 0)
          /\ Len(sec_sections) = IF sec_index = 0 THEN 0 ELSE sec_index - 1
    /\ sec_pc = "done" =>
          /\ Len(sec_sections) = sec_index
          /\ sec_file = Some(sec_sections)
          /\ \A m \in 1 .. Len(sec_sections) :
                /\ sec_sections[m].block_ids = RunIds(1, m)
                /\ \A k \in 1 .. Len(sec_blocks) :
                      (NonEmptyText(k) /\ RunOf(k) = m) =>
                          sec_sections[m].toc = sec_blocks[k].toc
          /\ \A m \in 1 .. Len(sec_sections) - 1 :
                sec_sections[m].toc # sec_sections[m + 1].toc

C19_Witness ==
    /\ sec_pc = "done"
    /\ Len(sec_blocks) = 3
    /\ \A k \in 1 .. 3 : NonEmptyText(k)
    /\ sec_blocks[1].toc = <<S_INTRO, S_COMBAT>>
    /\ sec_blocks[2].toc = <<S_INTRO, S_COMBAT>>
    /\ sec_blocks[3].toc = <<S_RULES, S_COMBAT>>
    /\ Len(sec_sections) = 2
    /\ Len(sec_sections[1].block_ids) = 2
    /\ sec_sections[2].toc = <<S_RULES, S_COMBAT>>

\* the block_ids of the input blocks with non-empty stripped text, in
\* input order
NonEmptyPlaces ==
    SelectSeq([k \in 1 .. Len(sec_blocks) |-> k], LAMBDA k : NonEmptyText(k))
NonEmptyIds ==
    [n \in 1 .. Len(NonEmptyPlaces) |-> sec_blocks[NonEmptyPlaces[n]].block_id]
NoRepeat(s) == \A a, b \in 1 .. Len(s) : a # b => s[a] # s[b]
NoStutter(s) == \A a \in 1 .. Len(s) - 1 : s[a] # s[a + 1]
SameSeq(s, t) == Len(s) = Len(t) /\ \A n \in 1 .. Len(s) : s[n] = t[n]

\* C33: the block_ids lists of the Sections returned, put end to end in
\* Section order, are the block_ids of the input blocks whose stripped
\* text is non-empty, in input order, each once; the m-th Section has
\* section_id sec_ followed by m - 1 on six digits; no Section lists a
\* page twice, nor the same heading twice in a row.
C33_SectionsPartitionInput ==
    sec_pc = "done" =>
        /\ SameSeq(ConcatAll([m \in 1 .. Len(sec_sections) |->
                                sec_sections[m].block_ids]),
                   NonEmptyIds)
        /\ \A m \in 1 .. Len(sec_sections) :
              /\ sec_sections[m].section_id = "sec_" \o Pad6(m - 1)
              /\ sec_sections[m].block_ids # <<>>
              /\ NoRepeat(sec_sections[m].pages)
              /\ NoStutter(sec_sections[m].headings)

C33_Witness ==
    /\ sec_pc = "done"
    /\ Len(sec_blocks) = 3
    /\ NonEmptyPlaces = <<1, 3>>
    /\ is_heading(sec_blocks[1])
    /\ is_heading(sec_blocks[3])
    /\ sec_blocks[1].page = sec_blocks[3].page
    /\ Len(sec_sections) = 1
    /\ sec_sections[1].section_id = "sec_000000"
    /\ sec_sections[1].block_ids
          = <<sec_blocks[1].block_id, sec_blocks[3].block_id>>
    /\ Len(sec_sections[1].pages) = 1
    /\ Len(sec_sections[1].headings) = 1

(***************************************************************************)
(* layout/order.py: parse_logits                                           *)
(*                                                                         *)
(* logits is the model output for the tokens CLS, region 0 .. region       *)
(* length - 1, EOS: a sequence of rows of scores.  An order value v is a   *)
(* column index, 0-based as in the code; the score of row r at v is        *)
(* r[v + 1].                                                               *)
(***************************************************************************)
\* line 34: logits[1 : length + 1, :length]
sliced(logits, length) ==
    [i \in 1 .. length |-> [j \in 1 .. length |-> logits[i + 1][j]]]

\* the orderings (sequences) of the values 0 .. n - 1
OrderingsOf(n) ==
    { p \in [1 .. n -> 0 .. n - 1] :
        \A a, b \in 1 .. n : a # b => p[a] # p[b] }
\* line 35: the results argsort(descending=False) may give for one row
\* (the sort is not stable: equal scores come in any order)
ArgsortsOf(row) ==
    { p \in OrderingsOf(Len(row)) :
        \A k \in 1 .. Len(row) - 1 : row[p[k] + 1] <= row[p[k + 1] + 1] }

\* lines 40-43: the regions holding value v, and the values held twice
HoldersOf(ret, v) == { i \in 1 .. Len(ret) : ret[i] = v }
CollisionsOf(ret) ==
    { v \in 0 .. Len(ret) - 1 : Cardinality(HoldersOf(ret, v)) > 1 }

\* A slip: the sort of line 52 ascending, so the lowest scorer keeps v.
keeper_lowest(m, idxes, v) ==
    CHOOSE i \in idxes :
        \A j \in idxes : \/ m[i][v + 1] < m[j][v + 1]
                          \/ (m[i][v + 1] = m[j][v + 1] /\ i <= j)

\* lines 48-53: ranked[0], the highest scorer at v among idxes; the sort is
\* stable, so of equal scorers the one of least index comes first
keeper(m, idxes, v) ==
    CHOOSE i \in idxes :
        \A j \in idxes : \/ m[i][v + 1] > m[j][v + 1]
                          \/ (m[i][v + 1] = m[j][v + 1] /\ i <= j)

\* lines 47-54: the regions that are reassigned in one pass
LosersOf(m, ret) ==
    { i \in 1 .. Len(ret) :
        /\ ret[i] \in CollisionsOf(ret)
        /\ i # keeper(m, HoldersOf(ret, ret[i]), ret[i]) }

\* ---- inputs
MaxLength == 3      \* most regions
Scores == {0, 1}
\* the scores of the CLS and EOS tokens and of the columns from length on
\* play no part; they are 0 here
LogitsOf(m) ==
    LET n == Len(m)
        pad == [j \in 1 .. n + 1 |-> 0]
    IN  <<pad>> \o [i \in 1 .. n |-> m[i] \o <<0>>] \o <<pad>>
LogitsInputs(n) == { LogitsOf(m) : m \in [1 .. n -> [1 .. n -> Scores]] }

PlIdle ==
    /\ pl_logits = <<>>
    /\ pl_length = 0
    /\ pl_pc = "idle"
    /\ pl_orders = <<>>
    /\ pl_ret = <<>>
    /\ pl_prev = None
    /\ pl_passes = 0

PlInit ==
    /\ pl_length \in 0 .. MaxLength
    /\ pl_logits \in LogitsInputs(pl_length)
    /\ pl_pc = "start"
    /\ pl_orders = <<>>
    /\ pl_ret = <<>>
    /\ pl_prev = None
    /\ pl_passes = 0

pl_scores == sliced(pl_logits, pl_length)

\* lines 34-36: every region takes the last of its argsort, its best value
FirstChoices ==
    /\ pl_pc = "start"
    /\ \E orders \in [1 .. pl_length -> OrderingsOf(pl_length)] :
          /\ \A i \in 1 .. pl_length : orders[i] \in ArgsortsOf(pl_scores[i])
          /\ pl_ret' = [i \in 1 .. pl_length |-> orders[i][pl_length]]
          /\ pl_orders' = [i \in 1 .. pl_length |->
                              SubSeq(orders[i], 1, pl_length - 1)]
    /\ pl_pc' = "loop"
    /\ UNCHANGED <<notPl, pl_logits, pl_length, pl_prev, pl_passes>>

\* lines 38-54, one pass of the while loop that finds collisions: in every
\* colliding group all but ranked[0] pop their next value; a pop from an
\* empty list raises IndexError
ResolveCollisions ==
    /\ pl_pc = "loop"
    /\ CollisionsOf(pl_ret) # {}
    /\ LET losers == LosersOf(pl_scores, pl_ret)
       IN  IF \E i \in losers : pl_orders[i] = <<>>
           THEN /\ pl_pc' = "IndexError"
                /\ UNCHANGED <<pl_ret, pl_orders, pl_prev, pl_passes>>
           ELSE /\ pl_ret' = [i \in 1 .. pl_length |->
                                 IF i \in losers
                                 THEN pl_orders[i][Len(pl_orders[i])]
                                 ELSE pl_ret[i]]
                /\ pl_orders' = [i \in 1 .. pl_length |->
                                    IF i \in losers
                                    THEN SubSeq(pl_orders[i], 1,
                                                Len(pl_orders[i]) - 1)
                                    ELSE pl_orders[i]]
                /\ pl_prev' = Some([ret |-> pl_ret, orders |-> pl_orders])
                /\ pl_passes' = pl_passes + 1
                /\ pl_pc' = pl_pc
    /\ UNCHANGED <<notPl, pl_logits, pl_length>>

\* lines 38-45 and 56: no collisions
ReturnRet ==
    /\ pl_pc = "loop"
    /\ CollisionsOf(pl_ret) = {}
    /\ pl_pc' = "done"
    /\ UNCHANGED <<notPl, pl_logits, pl_length, pl_orders, pl_ret, pl_prev,
                   pl_passes>>

LogitsNext ==
    \/ FirstChoices
    \/ ResolveCollisions
    \/ ReturnRet

\* ---- claims about parse_logits
RECURSIVE CandidatesLeft(_)
CandidatesLeft(orders) ==
    IF orders = <<>> THEN 0
    ELSE Len(Head(orders)) + CandidatesLeft(Tail(orders))
Untried(orders, i) == { orders[i][k] : k \in 1 .. Len(orders[i]) }
IsOrderPermutation(ret, n) ==
    /\ Len(ret) = n
    /\ \A i \in 1 .. n : ret[i] \in 0 .. n - 1
    /\ \A i, j \in 1 .. n : i # j => ret[i] # ret[j]
\* what the last pass did with the regions that held v before it
SlotKept(before, v) ==
    LET idxes == HoldersOf(before.ret, v)
    IN  \E w \in idxes :
          /\ pl_ret[w] = v
          /\ pl_orders[w] = before.orders[w]
          /\ \A j \in idxes : pl_scores[w][v + 1] >= pl_scores[j][v + 1]
          /\ \A l \in idxes \ {w} :
                /\ pl_ret[l] \in Untried(before.orders, l)
                /\ \A u \in Untried(before.orders, l) :
                      pl_scores[l][pl_ret[l] + 1] >= pl_scores[l][u + 1]
                /\ Untried(pl_orders, l)
                     = Untried(before.orders, l) \ {pl_ret[l]}
                /\ Len(pl_orders[l]) = Len(before.orders[l]) - 1

\* C20: for every n x n score matrix the collision loop of parse_logits
\* never pops from an exhausted candidate list, makes at most as many
\* passes as candidates have been used up (n * (n - 1) at the very most,
\* so it terminates), and returns a permutation of 0 .. n - 1; in every
\* pass each contested value stays with one highest scorer at that value,
\* every other holder moves to its best value not yet tried, and regions
\* without a collision keep theirs.
C20_CollisionsResolve ==
    /\ pl_pc # "IndexError"
    /\ pl_pc \in {"loop", "done"} =>
          /\ pl_passes + CandidatesLeft(pl_orders)
               <= pl_length * (pl_length - 1)
          /\ \A i \in 1 .. pl_length :
                pl_ret[i] \notin Untried(pl_orders, i)
    /\ pl_pc = "done" => IsOrderPermutation(pl_ret, pl_length)
    /\ pl_prev # None =>
          LET before == pl_prev[1]
          IN  /\ \A v \in CollisionsOf(before.ret) : SlotKept(before, v)
              /\ \A i \in 1 .. pl_length :
                    before.ret[i] \notin CollisionsOf(before.ret)
                        => /\ pl_ret[i] = before.ret[i]
                           /\ pl_orders[i] = before.orders[i]

\* three regions, two passes, the last of them over a value at which the
\* holders score differently, and the order returned
C20_Witness ==
    /\ pl_pc = "done"
    /\ pl_length = 3
    /\ pl_passes >= 2
    /\ \E v \in CollisionsOf(pl_prev[1].ret) :
          \E i, j \in HoldersOf(pl_prev[1].ret, v) :
              pl_scores[i][v + 1] > pl_scores[j][v + 1]

(***************************************************************************)
(* vision/vlm.py: extract_table                                            *)
(*                                                                         *)
(* A dict is a function on the keys it holds.  The provider is the         *)
(* environment: every request comes to a response with some content, or    *)
(* to HfHubHTTPError with some status.                                     *)
(***************************************************************************)
BASE_MAX_TOKENS == 1024
SUCCESS_SLEEP_SECONDS == 4
RETRY_BASE_SLEEP_SECONDS == 3
\* lines 81-85
token_schedule ==
    <<BASE_MAX_TOKENS, BASE_MAX_TOKENS * 2, BASE_MAX_TOKENS * 4>>

dict_get(d, key, default) == IF key \in DOMAIN d THEN d[key] ELSE default

\* ---- contents the provider may send
J_TABLE == "{\"description\": \"d\", \"columns\": [\"a\"], \"rows\": []}"
J_OBJECT == "{}"
J_ARRAY == "[]"
J_NULL == "null"
J_CUT == "{\"columns\": [\"a\""
J_PROSE == "Here is the table"
Contents == {Some(J_TABLE), Some(J_OBJECT), Some(J_ARRAY), Some(J_NULL),
             Some(J_CUT), Some(J_PROSE), None}
\* line 133: json.loads(content) on these contents; raised is "" when it
\* returns
json_loads(content) ==
    IF content = None THEN [raised |-> "TypeError"]
    ELSE IF content[1] = J_TABLE
    THEN [raised |-> "", type |-> "dict",
          value |-> [k \in {"description", "columns", "rows"} |->
                        IF k = "description" THEN Some("d")
                        ELSE IF k = "columns" THEN <<"a">> ELSE <<>>]]
    ELSE IF content[1] = J_OBJECT
    THEN [raised |-> "", type |-> "dict", value |-> [k \in {} |-> <<>>]]
    ELSE IF content[1] = J_ARRAY THEN [raised |-> "", type |-> "list"]
    ELSE IF content[1] = J_NULL THEN [raised |-> "", type |-> "NoneType"]
    ELSE [raised |-> "JSONDecodeError"]

\* lines 138-147
table_dict(block, table) ==
    [table_id |-> block["block_id"],
     toc |-> dict_get(block, "toc", <<>>),
     title |-> dict_get(block, "title", None),
     page |-> dict_get(block, "page", None),
     description |-> dict_get(table, "description", None),
     columns |-> dict_get(table, "columns", <<>>),
     rows |-> dict_get(table, "rows", <<>>),
     image_crop |-> dict_get(block, "image_crop", None)]

\* ---- inputs
CROP_PNG == "crops/table_p00000_o00001.png"
CropFiles == {CROP_PNG}         \* the files that can be read
VlmBlocks ==
    LET id == [k \in {"block_id"} |-> "table_p00000_o00001"]
        crop(path) == [k \in {"image_crop"} |-> Some(path)]
        rest == [k \in {"toc", "title", "page"} |->
                    IF k = "toc" THEN <<"Rules">>
                    ELSE IF k = "title" THEN Some("Weapons") ELSE Some(1)]
    IN  { id, id @@ crop(CROP_PNG), id @@ crop("crops/gone.png"),
          id @@ crop(CROP_PNG) @@ rest }
Statuses == {None, Some(429), Some(500)}    \* e.response, its status_code

VlmIdle ==
    /\ v_block = <<>>
    /\ v_pc = "idle"
    /\ v_attempt = 0
    /\ v_calls = <<>>
    /\ v_last_content = None
    /\ v_last_error = None
    /\ v_slept = 0
    /\ v_result = None
    /\ v_log = <<>>

VlmInit ==
    /\ v_block \in VlmBlocks
    /\ v_pc = "start"
    /\ v_attempt = 0
    /\ v_calls = <<>>
    /\ v_last_content = None
    /\ v_last_error = None
    /\ v_slept = 0
    /\ v_result = None
    /\ v_log = <<>>

\* lines 77-90: read the crop, build the prompt, enter the loop
EncodeImage ==
    /\ v_pc = "start"
    /\ v_pc' = IF "image_crop" \notin DOMAIN v_block THEN "KeyError"
               ELSE IF v_block["image_crop"][1] \notin CropFiles
               THEN "FileNotFoundError"
               ELSE "attempt"
    /\ v_attempt' = 1
    /\ UNCHANGED <<notVlm, v_block, v_calls, v_last_content, v_last_error,
                   v_slept, v_result, v_log>>

\* the request of lines 98-117, common to every attempt
Requested(outcome) ==
    /\ v_pc = "attempt"
    /\ v_calls' = Append(v_calls, token_schedule[v_attempt])
    /\ v_log' = Append(v_log, outcome)
\* line 90: the next attempt, or the raise of lines 155-158 after the last
AfterFailure ==
    /\ v_pc' = IF v_attempt = Len(token_schedule) THEN "RuntimeError"
               ELSE "attempt"
    /\ v_attempt' = v_attempt + 1

\* lines 119-126: HTTP 429
RateLimited ==
    /\ Requested([kind |-> "HfHubHTTPError", status |-> Some(429)])
    /\ v_slept' = v_slept + RETRY_BASE_SLEEP_SECONDS * v_attempt
    /\ v_last_error' = Some("HfHubHTTPError")
    /\ AfterFailure
    /\ UNCHANGED <<notVlm, v_block, v_last_content, v_result>>

\* lines 119-127: any other HfHubHTTPError is raised again
HttpError ==
    /\ \E status \in Statuses \ {Some(429)} :
          Requested([kind |-> "HfHubHTTPError", status |-> status])
    /\ v_pc' = "HfHubHTTPError"
    /\ UNCHANGED <<notVlm, v_block, v_attempt, v_last_content, v_last_error,
                   v_slept, v_result>>

\* lines 129-133: json.loads raises something other than JSONDecodeError
NoContent ==
    /\ \E content \in Contents :
          /\ json_loads(content).raised = "TypeError"
          /\ Requested([kind |-> "response", content |-> content])
          /\ v_last_content' = content
    /\ v_pc' = "TypeError"
    /\ UNCHANGED <<notVlm, v_block, v_attempt, v_last_error, v_slept,
                   v_result>>

\* lines 129-147: the content is a JSON object
ReturnTable ==
    /\ \E content \in Contents :
          LET parsed == json_loads(content)
          IN  /\ parsed.raised = ""
              /\ parsed.type = "dict"
              /\ Requested([kind |-> "response", content |-> content])
              /\ v_last_content' = content
              /\ v_result' = Some(table_dict(v_block, parsed.value))
    /\ v_slept' = v_slept + SUCCESS_SLEEP_SECONDS
    /\ v_pc' = "returned"
    /\ UNCHANGED <<notVlm, v_block, v_attempt, v_last_error>>

\* lines 129-143: the content is JSON but no object: table.get raises
NotAnObject ==
    /\ \E content \in Contents :
          LET parsed == json_loads(content)
          IN  /\ parsed.raised = ""
              /\ parsed.type # "dict"
              /\ Requested([kind |-> "response", content |-> content])
              /\ v_last_content' = content
    /\ v_slept' = v_slept + SUCCESS_SLEEP_SECONDS
    /\ v_pc' = "AttributeError"
    /\ UNCHANGED <<notVlm, v_block, v_attempt, v_last_error, v_result>>

\* lines 129-133 and 149-152: the content is no JSON
Malformed ==
    /\ \E content \in Contents :
          /\ json_loads(content).raised = "JSONDecodeError"
          /\ Requested([kind |-> "response", content |-> content])
          /\ v_last_content' = content
    /\ v_last_error' = Some("JSONDecodeError")
    /\ v_slept' = v_slept + RETRY_BASE_SLEEP_SECONDS * v_attempt
    /\ AfterFailure
    /\ UNCHANGED <<notVlm, v_block, v_result>>

VlmNext ==
    \/ EncodeImage
    \/ RateLimited
    \/ HttpError
    \/ NoContent
    \/ ReturnTable
    \/ NotAnObject
    \/ Malformed

\* ---- claims about extract_table
ParsesAsJson(outcome) ==
    /\ outcome.kind = "response"
    /\ json_loads(outcome.content).raised = ""
VlmEnded == v_pc \notin {"idle", "start", "attempt"}

\* C21: extract_table makes at most 3 requests, with max_tokens 1024, 2048,
\* 4096 in that order; a request whose content parses as JSON is the last
\* one and the call returns a table for it; when all three requests come
\* to malformed content or HTTP 429 the call ends by raising, with nothing
\* returned.
C21_ReturnsAtFirstJson ==
    /\ Len(v_calls) <= 3
    /\ \A k \in 1 .. Len(v_calls) : v_calls[k] = <<1024, 2048, 4096>>[k]
    /\ \A k \in 1 .. Len(v_log) :
          ParsesAsJson(v_log[k]) =>
              /\ k = Len(v_log)
              /\ v_pc = "returned"
              /\ v_result # None
    /\ v_pc = "returned" => ParsesAsJson(v_log[Len(v_log)])
    /\ (Len(v_log) = 3 /\ \A k \in 1 .. 3 : ~ParsesAsJson(v_log[k])) =>
          /\ VlmEnded
          /\ v_pc # "returned"
          /\ v_result = None

(***************************************************************************)
(* blocks/assemble.py: concurrent assemble_page calls on one assembler     *)
(*                                                                         *)
(* A frame holds the arguments and the locals of one call (lines 54-66;    *)
(* flush_text closes over the locals of its own call).  The assembler      *)
(* itself holds crop_dir and prose_font_size, which assemble_page only     *)
(* reads; the crop files are shared.  Workers interleave at the loop       *)
(* iterations.                                                             *)
(***************************************************************************)
\* lines 54-66, on the frame f of a call that has not begun
frame_begin(f) ==
    IF OrderInRange(f.reading_order, f.ocr_regions)
    THEN [f EXCEPT !.pc = "loop", !.idx = 0, !.blocks = <<>>,
                   !.order_id = 0, !.emitted_tables = {},
                   !.title_state = None, !.current_text = <<>>]
    ELSE [f EXCEPT !.pc = "error"]

\* flush_text() on the locals of f
frame_flush(f) ==
    LET r == flush_text(f.blocks, f.order_id, f.title_state, f.current_text,
                        f.page_index)
    IN  [f EXCEPT !.blocks = r.blocks, !.order_id = r.order_id,
                  !.current_text = r.current_text]

\* lines 116-117: the table of the current region when it is to be emitted
frame_table(f) ==
    LET ocr == OrderedOcr(f.reading_order, f.ocr_regions)[f.idx + 1]
        label == LabelOf(ocr.bbox, f.layout_regions)
        table == TableIndexOf(ocr.bbox, f.layout_regions)
    IN  IF /\ ~IsNoiseLabel(label)
           /\ ~IsTitleLabel(label)
           /\ table # None
        THEN IF table[1] \in f.emitted_tables THEN None ELSE table
        ELSE None

\* lines 86-168: one iteration of the loop on the locals of f
frame_iterate(f, prose_size) ==
    LET ordered == OrderedOcr(f.reading_order, f.ocr_regions)
        ocr == ordered[f.idx + 1]
        label == LabelOf(ocr.bbox, f.layout_regions)
        table == TableIndexOf(ocr.bbox, f.layout_regions)
        before == IF f.idx > 0 THEN ordered[f.idx].size ELSE None
        after == IF f.idx < Len(ordered) - 1 THEN ordered[f.idx + 2].size
                 ELSE None
        skipped == [f EXCEPT !.idx = @ + 1]
        titled == [frame_flush(skipped) EXCEPT !.title_state = Some(ocr.text)]
        appended == [skipped EXCEPT !.current_text = Append(@, ocr.text)]
        flushed == frame_flush(skipped)
        tabled == [flushed EXCEPT
                     !.blocks = Append(@, TableBlock(f.page_index,
                                                     flushed.order_id,
                                                     f.title_state)),
                     !.order_id = @ + 1,
                     !.emitted_tables = @ \cup {table[1]}]
    IN  IF IsNoiseLabel(label) THEN skipped
        ELSE IF IsTitleLabel(label) THEN titled
        ELSE IF table # None
        THEN IF table[1] \in f.emitted_tables THEN skipped ELSE tabled
        ELSE IF Truthy(prose_size) /\ ocr.size # None
        THEN IF ocr.size[1] <= prose_size[1] THEN appended
             ELSE IF before # ocr.size /\ after # ocr.size THEN titled
             ELSE appended
        ELSE appended

\* lines 121-124: the crop file the iteration writes, None when it emits
\* no table
frame_crop(f) ==
    IF frame_table(f) = None THEN None
    ELSE LET b == TableBlock(f.page_index, frame_flush(f).order_id,
                             f.title_state)
         IN  Some([path |-> b.image_crop[1],
                   bbox |-> TableRegions(f.layout_regions)
                                [frame_table(f)[1] + 1].bbox])

\* lines 170-171
frame_finish(f) == [frame_flush(f) EXCEPT !.pc = "done"]

\* one call run from its start to its end with no other call about
RECURSIVE assemble_page_alone(_, _)
assemble_page_alone(f, prose_size) ==
    IF f.pc = "start" THEN assemble_page_alone(frame_begin(f), prose_size)
    ELSE IF f.pc = "loop" /\ f.idx < Len(f.reading_order)
    THEN assemble_page_alone(frame_iterate(f, prose_size), prose_size)
    ELSE IF f.pc = "loop" THEN frame_finish(f)
    ELSE f

\* ---- inputs
MaxWorkers == 2     \* calls running at the same time
Workers == 1 .. MaxWorkers
\* reading_order and layout_regions of the pages handed to the workers
PagePalette ==
    { [reading_order |-> <<>>, layout_regions |-> <<>>],
      [reading_order |-> <<0, 1>>, layout_regions |-> <<>>],
      [reading_order |-> <<0, 1, 2>>,
       layout_regions |-> <<[label |-> "table", bbox |-> B_PAGE]>>],
      [reading_order |-> <<0, 1, 2>>,
       layout_regions |-> <<[label |-> "paragraph_title", bbox |-> B_TITLE],
                            [label |-> "table", bbox |-> B_BODY]>>],
      [reading_order |-> <<2, 1>>,
       layout_regions |-> <<[label |-> "table", bbox |-> B_BODY]>>],
      [reading_order |-> <<4>>, layout_regions |-> <<>>] }
NewFrame(page_no, page) ==
    [page_index |-> page_no, ocr_regions |-> OcrPalette,
     reading_order |-> page.reading_order,
     layout_regions |-> page.layout_regions,
     pc |-> "start", idx |-> 0, blocks |-> <<>>, order_id |-> 0,
     emitted_tables |-> {}, title_state |-> None, current_text |-> <<>>]

CcIdle ==
    /\ cc_prose = None
    /\ cc_frames = <<>>
    /\ cc_files = {}

\* one assembler, and one call per worker, each for a page_index of its own
CcInit ==
    /\ cc_prose \in {None, Some(10)}
    /\ \E pages \in [Workers -> PagePalette] :
         \E numbers \in [Workers -> 0 .. MaxPageIndex] :
            /\ \A v, w \in Workers : v # w => numbers[v] # numbers[w]
            /\ cc_frames = [w \in Workers |-> NewFrame(numbers[w], pages[w])]
    /\ cc_files = {}

WorkerBegins ==
    \E w \in Workers :
        /\ cc_frames[w].pc = "start"
        /\ cc_frames' = [cc_frames EXCEPT ![w] = frame_begin(@)]
        /\ UNCHANGED <<notCc, cc_prose, cc_files>>

WorkerIterates ==
    \E w \in Workers :
        LET f == cc_frames[w]
        IN  /\ f.pc = "loop"
            /\ f.idx < Len(f.reading_order)
            /\ cc_frames' = [cc_frames EXCEPT ![w] = frame_iterate(f, cc_prose)]
            /\ cc_files' =
                 IF frame_crop(f) = None THEN cc_files
                 ELSE cc_files \cup
                        {[path |-> frame_crop(f)[1].path,
                          bbox |-> frame_crop(f)[1].bbox, by |-> w]}
            /\ UNCHANGED <<notCc, cc_prose>>

WorkerFinishes ==
    \E w \in Workers :
        LET f == cc_frames[w]
        IN  /\ f.pc = "loop"
            /\ f.idx = Len(f.reading_order)
            /\ cc_frames' = [cc_frames EXCEPT ![w] = frame_finish(f)]
            /\ UNCHANGED <<notCc, cc_prose, cc_files>>

ConcurrentNext ==
    \/ WorkerBegins
    \/ WorkerIterates
    \/ WorkerFinishes

\* ---- claims about concurrent calls
StartOf(f) == NewFrame(f.page_index,
                       [reading_order |-> f.reading_order,
                        layout_regions |-> f.layout_regions])

\* C22: under every interleaving of assemble_page calls for distinct
\* page_index values on one assembler, a call that has ended has the
\* outcome, and has returned the Block list, of the same call run alone,
\* and no crop file is written by two calls.
C22_ConcurrentCallsAgree ==
    /\ \A w \in Workers :
          LET f == cc_frames[w]
              alone == assemble_page_alone(StartOf(f), cc_prose)
          IN  f.pc \in {"done", "error"} =>
                 /\ f.pc = alone.pc
                 /\ f.pc = "done" => f.blocks = alone.blocks
    /\ \A a, b \in cc_files : a.path = b.path => a.by = b.by

\* both calls have returned, each with a table Block of order_id 0 whose
\* crop it wrote itself
C22_Witness ==
    /\ \A w \in Workers :
          /\ cc_frames[w].pc = "done"
          /\ \E k \in 1 .. Len(cc_frames[w].blocks) :
                LET b == cc_frames[w].blocks[k]
                IN  /\ b.type = "table"
                    /\ b.order_id = 0
                    /\ \E file \in cc_files :
                          file.path = b.image_crop[1] /\ file.by = w
    /\ Cardinality(cc_files) >= 2

(***************************************************************************)
(* utils/normalize.py: normalize_title on "Chapter N: T" and "Ch. N T"     *)
(***************************************************************************)
RECURSIVE JoinWords(_)
JoinWords(words) ==
    IF words = <<>> THEN <<>>
    ELSE IF Len(words) = 1 THEN words[1]
    ELSE words[1] \o <<" ">> \o JoinWords(Tail(words))
ChapterSpelling(number, words) ==
    <<"C", "h", "a", "p", "t", "e", "r", " ">> \o number \o <<":", " ">>
        \o JoinWords(words)
ChSpelling(number, words) ==
    <<"C", "h", ".", " ">> \o number \o <<" ">> \o JoinWords(words)

\* ---- inputs
MaxWords == 3       \* most words in T
TitleWords ==
    { <<"T", "h", "e">>, <<"G", "r", "e", "a", "t">>, <<"W", "a", "r">>,
      <<"C", "h", "a", "p", "t", "e", "r">>, <<"c", "h", ".">>,
      <<"i", "t", "'", "s">> }
TitleNumbers == { <<"3">>, <<"1", "2">>, <<"0">> }

NtIdle ==
    /\ nt_number = <<>>
    /\ nt_words = <<>>
    /\ nt_pc = "idle"
    /\ nt_long = None
    /\ nt_short = None

NtInit ==
    /\ nt_number \in TitleNumbers
    /\ \E n \in 1 .. MaxWords : nt_words \in [1 .. n -> TitleWords]
    /\ nt_pc = "start"
    /\ nt_long = None
    /\ nt_short = None

\* the two spellings are normalised
NormalizeBoth ==
    /\ nt_pc = "start"
    /\ nt_long' = Some(normalize_title(ChapterSpelling(nt_number, nt_words)))
    /\ nt_short' = Some(normalize_title(ChSpelling(nt_number, nt_words)))
    /\ nt_pc' = "done"
    /\ UNCHANGED <<notNt, nt_number, nt_words>>

TitleNext == NormalizeBoth

\* C23: normalize_title gives one string for "Chapter N: T" and for
\* "Ch. N T", for every number N and every text T of words separated by
\* single spaces; for "Chapter 3: The Great War" and "Ch. 3 The Great War"
\* that string is "ch 3 the great war".
C23_ChapterSpellingsAgree ==
    /\ nt_pc = "done" => nt_long = nt_short
    /\ normalize_title(S_CHAPTER3) = normalize_title(S_CH3)
    /\ (/\ nt_pc = "done"
        /\ ChapterSpelling(nt_number, nt_words) = S_CHAPTER3)
          => /\ ChSpelling(nt_number, nt_words) = S_CH3
             /\ nt_long = Some(<<"c", "h", " ", "3", " ", "t", "h", "e", " ",
                                 "g", "r", "e", "a", "t", " ", "w", "a",
                                 "r">>)

\* the example of the specification has been normalised, both ways
C23_Witness ==
    /\ nt_pc = "done"
    /\ ChapterSpelling(nt_number, nt_words) = S_CHAPTER3
    /\ nt_short = nt_long

(***************************************************************************)
(* TOC line parsing: parse_toc_page of ocr/toc.py from line 50 on, and     *)
(* parse_toc_lines of scripts/extract_toc.py                               *)
(*                                                                         *)
(* A line is [text, size]: for ocr/toc.py an element of filtered_ocr (the  *)
(* OCR regions inside a "content" layout region, in reading order), for    *)
(* the script an element of lines.  Texts are sequences of characters.     *)
(***************************************************************************)
Suffix(s, i) == SubSeq(s, i, Len(s))
\* \.{2,}\s*$ matched against the whole of r
IsLeader(r) ==
    \E k \in 2 .. Len(r) :
        /\ \A j \in 1 .. k : r[j] = "."
        /\ \A j \in k + 1 .. Len(r) : IsSpace(r[j])
\* DOT_LEADER_RE.sub("", s): the leftmost match runs to the end of s
dot_leader_sub(s) ==
    LET starts == { i \in 1 .. Len(s) : IsLeader(Suffix(s, i)) }
    IN  IF starts = {} THEN s
        ELSE SubSeq(s, 1, (CHOOSE i \in starts : \A j \in starts : i <= j) - 1)

\* \.{2,}\s*\d+$ matched against the whole of r
IsPageTail(r) ==
    \E k \in 2 .. Len(r) : \E m \in k .. Len(r) - 1 :
        /\ \A j \in 1 .. k : r[j] = "."
        /\ \A j \in k + 1 .. m : IsSpace(r[j])
        /\ \A j \in m + 1 .. Len(r) : r[j] \in Digits
\* the digits that end s
RECURSIVE trailing_digits(_)
trailing_digits(s) ==
    IF s # <<>> /\ s[Len(s)] \in Digits
    THEN Append(trailing_digits(SubSeq(s, 1, Len(s) - 1)), s[Len(s)])
    ELSE <<>>
\* int() of a string of digits
RECURSIVE int_of(_)
int_of(digits) ==
    IF digits = <<>> THEN 0
    ELSE 10 * int_of(SubSeq(digits, 1, Len(digits) - 1))
           + (CHOOSE d \in 0 .. 9 : ToString(d) = digits[Len(digits)])
\* TOC_LINE_RE.match(text): None, or the groups title and page; the title
\* is lazy, so it is the shortest that lets the rest match
toc_line_match(text) ==
    LET ends == { q \in 1 .. Len(text) - 1 :
                    /\ \A j \in 1 .. q : text[j] # "\n"
                    /\ IsPageTail(Suffix(text, q + 1)) }
    IN  IF ends = {} THEN None
        ELSE Some([title |-> SubSeq(text, 1,
                                    CHOOSE q \in ends : \A j \in ends : q <= j),
                   page |-> trailing_digits(text)])

\* ocr/toc.py lines 50-54 and scripts/extract_toc.py lines 73-74: the
\* level of a font size is its rank among the sizes present, largest first
font_to_level(sizes, size) == Cardinality({ z \in sizes : z > size })
SizesOf(lines) == { lines[k].size : k \in 1 .. Len(lines) }

\* lines 67-81 (script lines 82-94): the entry of one line text
entry_of(text, level) ==
    LET match == toc_line_match(text)
    IN  IF match # None
        THEN [title |-> str_strip(match[1].title),
              page_start |-> Some(int_of(match[1].page)), level |-> level]
        ELSE [title |-> text, page_start |-> None, level |-> level]

\* ocr/toc.py lines 50-83
parse_toc_page(lines) ==
    [k \in 1 .. Len(lines) |->
        entry_of(str_rstrip(dot_leader_sub(str_strip(lines[k].text))),
                 font_to_level(SizesOf(lines), lines[k].size))]

\* str.upper
str_upper(s) ==
    [i \in 1 .. Len(s) |->
        IF \E k \in 1 .. 26 : LOWER[k] = s[i]
        THEN UPPER[CHOOSE k \in 1 .. 26 : LOWER[k] = s[i]]
        ELSE s[i]]
\* scripts/extract_toc.py lines 12-15
TOC_NOISE ==
    { <<"C", "O", "N", "T", "E", "N", "T", "S">>,
      <<"T", "A", "B", "L", "E", " ", "O", "F", " ", "C", "O", "N", "T",
        "E", "N", "T", "S">> }
\* str.isdigit
str_isdigit(s) == s # <<>> /\ \A j \in 1 .. Len(s) : s[j] \in Digits
\* scripts/extract_toc.py lines 27-41
is_toc_noise(text, font_size) ==
    LET t == str_upper(str_strip(text))
    IN  t \in TOC_NOISE \/ str_isdigit(t) \/ font_size <= 7
NotNoise(line) == ~is_toc_noise(line.text, line.size)
\* scripts/extract_toc.py lines 66-96
parse_toc_lines(lines) ==
    LET clean == SelectSeq(lines, NotNoise)
    IN  [k \in 1 .. Len(clean) |->
            entry_of(clean[k].text,
                     font_to_level(SizesOf(clean), clean[k].size))]

\* ---- inputs
MaxLines == 3       \* most lines on the TOC page
L_TITLE == <<"A", "b">>
L_FULL == <<"A", "b", " ", ".", ".", ".", " ", "7">>
L_LEADER == <<"A", "b", " ", ".", ".", ".">>
L_NUMBER == <<"1", "2">>
L_HEAD == <<"C", "o", "n", "t", "e", "n", "t", "s">>
LineTexts == {L_TITLE, L_FULL, L_LEADER, L_NUMBER, L_HEAD}
LineSizes == {7, 10, 12}
TocLines == [text : LineTexts, size : LineSizes]

PtIdle ==
    /\ pt_lines = <<>>
    /\ pt_pc = "idle"
    /\ pt_entries = <<>>

PtInit ==
    /\ \E n \in 0 .. MaxLines : pt_lines \in [1 .. n -> TocLines]
    /\ pt_pc = "start"
    /\ pt_entries = <<>>

ParseTocPage ==
    /\ pt_pc = "start"
    /\ pt_entries' = parse_toc_page(pt_lines)
    /\ pt_pc' = "parsed"
    /\ UNCHANGED <<notPt, pt_lines>>

ScriptParseTocLines ==
    /\ pt_pc = "start"
    /\ pt_entries' = parse_toc_lines(pt_lines)
    /\ pt_pc' = "script_parsed"
    /\ UNCHANGED <<notPt, pt_lines>>

TocLinesNext ==
    \/ ParseTocPage
    \/ ScriptParseTocLines

\* ---- claims about TOC line parsing
Parsed == pt_pc \in {"parsed", "script_parsed"}
\* a line that is a title with no page, and a line that is a number alone
IsTitleAlone(line) ==
    LET text == str_rstrip(dot_leader_sub(str_strip(line.text)))
    IN  /\ ~str_isdigit(text)
        /\ toc_line_match(text) = None
        /\ NotNoise(line)
IsNumberAlone(line) ==
    /\ str_isdigit(str_rstrip(dot_leader_sub(str_strip(line.text))))
    /\ line.size > 7

\* C26: in the entries returned by either parser no entry whose title is
\* a number alone follows an entry whose page_start is unset (the number
\* line has become that entry's page_start), and a title line followed by
\* a number line gives one entry, with the number as its page_start.
C26_NumberLineSetsPage ==
    Parsed =>
        /\ \A k \in 1 .. Len(pt_entries) - 1 :
              str_isdigit(pt_entries[k + 1].title)
                  => pt_entries[k].page_start # None
        /\ (/\ Len(pt_lines) = 2
            /\ IsTitleAlone(pt_lines[1])
            /\ IsNumberAlone(pt_lines[2]))
              => /\ Len(pt_entries) = 1
                 /\ pt_entries[1].page_start
                      = Some(int_of(str_strip(pt_lines[2].text)))

(***************************************************************************)
(* Specifications: one per component, the other components at rest.       *)
(***************************************************************************)
GeomNext == CallIntersects

InitGeometry ==
    /\ GeomInit /\ AsmIdle /\ OrdIdle /\ TocIdle
    /\ AlIdle /\ SbIdle /\ SecIdle /\ PlIdle
    /\ VlmIdle /\ CcIdle /\ NtIdle /\ PtIdle
InitAssemble ==
    /\ GeomInit /\ AsmInit /\ OrdIdle /\ TocIdle
    /\ AlIdle /\ SbIdle /\ SecIdle /\ PlIdle
    /\ VlmIdle /\ CcIdle /\ NtIdle /\ PtIdle
InitOrder ==
    /\ GeomInit /\ AsmIdle /\ OrdInit /\ TocIdle
    /\ AlIdle /\ SbIdle /\ SecIdle /\ PlIdle
    /\ VlmIdle /\ CcIdle /\ NtIdle /\ PtIdle
InitToc ==
    /\ GeomInit /\ AsmIdle /\ OrdIdle /\ TocInit
    /\ AlIdle /\ SbIdle /\ SecIdle /\ PlIdle
    /\ VlmIdle /\ CcIdle /\ NtIdle /\ PtIdle
InitAlign ==
    /\ GeomInit /\ AsmIdle /\ OrdIdle /\ TocIdle
    /\ AlInit /\ SbIdle /\ SecIdle /\ PlIdle
    /\ VlmIdle /\ CcIdle /\ NtIdle /\ PtIdle
InitSerialize ==
    /\ GeomInit /\ AsmIdle /\ OrdIdle /\ TocIdle
    /\ AlIdle /\ SbInit /\ SecIdle /\ PlIdle
    /\ VlmIdle /\ CcIdle /\ NtIdle /\ PtIdle
InitSections ==
    /\ GeomInit /\ AsmIdle /\ OrdIdle /\ TocIdle
    /\ AlIdle /\ SbIdle /\ SecInit /\ PlIdle
    /\ VlmIdle /\ CcIdle /\ NtIdle /\ PtIdle
InitLogits ==
    /\ GeomInit /\ AsmIdle /\ OrdIdle /\ TocIdle
    /\ AlIdle /\ SbIdle /\ SecIdle /\ PlInit
    /\ VlmIdle /\ CcIdle /\ NtIdle /\ PtIdle
InitVlm ==
    /\ GeomInit /\ AsmIdle /\ OrdIdle /\ TocIdle
    /\ AlIdle /\ SbIdle /\ SecIdle /\ PlIdle
    /\ VlmInit /\ CcIdle /\ NtIdle /\ PtIdle
InitConcurrent ==
    /\ GeomInit /\ AsmIdle /\ OrdIdle /\ TocIdle
    /\ AlIdle /\ SbIdle /\ SecIdle /\ PlIdle
    /\ VlmIdle /\ CcInit /\ NtIdle /\ PtIdle
InitTitle ==
    /\ GeomInit /\ AsmIdle /\ OrdIdle /\ TocIdle
    /\ AlIdle /\ SbIdle /\ SecIdle /\ PlIdle
    /\ VlmIdle /\ CcIdle /\ NtInit /\ PtIdle
InitTocLines ==
    /\ GeomInit /\ AsmIdle /\ OrdIdle /\ TocIdle
    /\ AlIdle /\ SbIdle /\ SecIdle /\ PlIdle
    /\ VlmIdle /\ CcIdle /\ NtIdle /\ PtInit

SpecGeometry == InitGeometry /\ [][GeomNext]_vars

SpecAssemble == InitAssemble /\ [][AsmNext]_vars

SpecOrder == InitOrder /\ [][OrdNext]_vars

SpecToc == InitToc /\ [][TocNext]_vars

SpecAlign == InitAlign /\ [][AlignNext]_vars

SpecSerialize == InitSerialize /\ [][SerializeNext]_vars

SpecSections == InitSections /\ [][SectionsNext]_vars

SpecLogits == InitLogits /\ [][LogitsNext]_vars

SpecVlm == InitVlm /\ [][VlmNext]_vars

SpecConcurrent == InitConcurrent /\ [][ConcurrentNext]_vars

SpecTitle == InitTitle /\ [][TitleNext]_vars

SpecTocLines == InitTocLines /\ [][TocLinesNext]_vars

====
